---------------------------- MODULE Spec2Model ----------------------------
(***************************************************************************)
(* Model of the HTTP client layer of confluence-cli:                       *)
(*   src/src/confluence/client.py  (ConfluenceClient._request, get_page,   *)
(*                                  update_page)                           *)
(*   src/src/confluence/errors.py  (raise_for_status)                      *)
(* and of the parts of the command line built on it:                       *)
(*   src/src/confluence/client.py  (find_page_by_title, create_page,       *)
(*                                  list_children, list_all_children)      *)
(*   src/src/converters/markdown.py (convert_md_to_html)                   *)
(*   src/src/commands/create_document.py, update_document.py               *)
(* Python dicts are functions with a string domain; texts are strings.     *)
(***************************************************************************)
EXTENDS Integers, Sequences, FiniteSets, TLC

VARIABLES
    retries,      \* ConfluenceClient.retries
    backoff,      \* ConfluenceClient.backoff, in milliseconds
    base_url,     \* ConfluenceClient.base_url (after rstrip('/'))
    timeout,      \* ConfluenceClient.timeout, in seconds
    rpc,          \* position of the running _request: idle, loop, returned, raised
    req,          \* arguments of the running _request: method, url, expected
    attempt,      \* _request's local attempt counter
    calls,        \* session.request invocations of the running _request
    seen,         \* for a _request called directly: what its invocations of
                  \* session.request produced, as counts per class of outcome
    slept,        \* delay of the time.sleep of the latest iteration, -1: it did not sleep
    result,       \* how the latest _request ended: return value or exception
    upc,          \* position of update_page: idle, get1, put1, get2, put2, done
    upd,          \* update_page's page_id and _retry, and the payload's version number
    reqlog,       \* the _request invocations of the running update_page, in order
    uresult,      \* how update_page ended
    rfs,          \* the latest direct raise_for_status call: arguments and outcome
    fnd,          \* the running find_page_by_title: position, arguments, outcome
    lst,          \* the running list_all_children: position, locals, the server's list
    conv,         \* convert_md_to_html: position, arguments, PATH and files, outcome
    cmd,          \* the running command (create or update): options, position, exit
    srv,          \* the server: how many times it applied a POST of the running call
    lnk,          \* the latest direct page_link call: argument and value returned
    br            \* the browse command that runs: the interactive browser's state

vars == <<retries, backoff, base_url, timeout, rpc, req, attempt, calls, seen,
          slept, result, upc, upd, reqlog, uresult, rfs, fnd, lst, conv, cmd,
          srv, lnk, br>>

client == <<retries, backoff, base_url, timeout>>
frame  == <<rpc, req, attempt, calls, seen, slept, result>>
uframe == <<upc, upd, reqlog, uresult>>
env    == <<srv, lnk, br>>
others == <<fnd, lst, conv, cmd, env>>

----------------------------------------------------------------------------
(* Bounds *)

MaxRetries == 2     \* retries ranges over 0..MaxRetries
MaxExtra   == 1     \* session.request invocations followed beyond retries + 1
MaxVersion == 2     \* page versions the server reports: 1..MaxVersion
MaxResults == 2     \* results in one answer to the title search: 0..MaxResults
MaxChildren == 201  \* children of the listed page on the server: 0..MaxChildren
MaxDepth == 1       \* entries of the browser's back stack that are followed
MaxStart == 10      \* largest start offset the n key is followed to

----------------------------------------------------------------------------
(* Text helpers (Python str operations) *)

\* needle in hay
Contains(hay, needle) ==
    \E i \in 1..(Len(hay) - Len(needle) + 1) :
        SubSeq(hay, i, i + Len(needle) - 1) = needle

\* hay.startswith(prefix)
StartsWith(hay, prefix) ==
    Len(hay) >= Len(prefix) /\ SubSeq(hay, 1, Len(prefix)) = prefix

\* hay.endswith(suffix)
EndsWith(hay, suffix) ==
    Len(hay) >= Len(suffix)
    /\ SubSeq(hay, Len(hay) - Len(suffix) + 1, Len(hay)) = suffix

\* s.rstrip(c) for a one-character c
RECURSIVE RStripChar(_, _)
RStripChar(s, c) ==
    IF Len(s) > 0 /\ SubSeq(s, Len(s), Len(s)) = c
    THEN RStripChar(SubSeq(s, 1, Len(s) - 1), c)
    ELSE s

\* s.lstrip(c) for a one-character c
RECURSIVE LStripChar(_, _)
LStripChar(s, c) ==
    IF Len(s) > 0 /\ SubSeq(s, 1, 1) = c
    THEN LStripChar(SubSeq(s, 2, Len(s)), c)
    ELSE s

\* s.strip() on texts whose only whitespace is the space character
Strip(s) == LStripChar(RStripChar(s, " "), " ")

\* d.get(k) or "" for a text field of a JSON object
GetText(d, k) == IF k \in DOMAIN d THEN d[k] ELSE ""

\* the empty JSON object {}
EmptyDict == <<>>


----------------------------------------------------------------------------
(* errors.py: raise_for_status *)

\* The detail text of the exception (errors.py lines 30-35).
Detail(message, payload) ==
    LET err_title  == IF GetText(payload, "message") # ""
                      THEN GetText(payload, "message")
                      ELSE GetText(payload, "title")
        err_reason == GetText(payload, "reason")
    IN  IF payload # EmptyDict /\ (err_title # "" \/ err_reason # "")
        THEN Strip(message \o " " \o err_title \o " " \o err_reason)
        ELSE message

\* a status chain whose first test leaves 403 out
StatusKind_No403(status_code) ==
    IF status_code = 401 THEN "AuthError"
    ELSE IF status_code = 404 THEN "NotFound"
    ELSE IF status_code = 409 THEN "Conflict"
    ELSE IF status_code = 429 THEN "RateLimited"
    ELSE IF 500 <= status_code /\ status_code < 600 THEN "ServerError"
    ELSE IF 400 <= status_code /\ status_code < 500 THEN "ValidationError"
    ELSE "None"

\* The exception class raised for a status code, "None" when none is raised
\* (errors.py lines 37-48: the chain of ifs, first match wins).
StatusKind(status_code) ==
    IF status_code \in {401, 403} THEN "AuthError"
    ELSE IF status_code = 404 THEN "NotFound"
    ELSE IF status_code = 409 THEN "Conflict"
    ELSE IF status_code = 429 THEN "RateLimited"
    ELSE IF 500 <= status_code /\ status_code < 600 THEN "ServerError"
    ELSE IF 400 <= status_code /\ status_code < 500 THEN "ValidationError"
    ELSE "None"

\* raise_for_status: whether it raises, and the exception it raises.
raise_for_status(status_code, message, payload) ==
    [raised |-> StatusKind(status_code) # "None",
     cls    |-> StatusKind(status_code),
     msg    |-> Detail(message, payload)]

----------------------------------------------------------------------------
(* What the server and the network can answer to one session.request *)

SuccessStatuses   == {200, 201, 204}
TransientStatuses == {429, 500, 502, 503, 504}      \* client.py line 48
OtherStatuses     == {400, 401, 403, 404, 409, 501}
Statuses          == SuccessStatuses \cup TransientStatuses \cup OtherStatuses

NoHeader == [present |-> FALSE, value |-> ""]
Header(v) == [present |-> TRUE, value |-> v]
HttpDate == "Wed, 21 Oct 2015 07:28:00 GMT"
\* Retry-After: absent, delay-seconds, or an HTTP-date (RFC 9110, 10.2.3)
RetryAfterHeaders == {NoHeader, Header("0"), Header("2"), Header(HttpDate)}

\* JSON bodies of a page representation
PageBodies ==
    {[type |-> "page", title |-> "T", version |-> [number |-> n]] : n \in 1..MaxVersion}
    \cup {[type |-> "page", title |-> "T"]}

\* JSON bodies of an error response
ErrorBodies ==
    {[message |-> "Version must be incremented", reason |-> "Conflict"],
     [message |-> "", title |-> "Request failed"]}
\* a JSON body of a 409 response that names the status code
ConflictBodies == {[message |-> "", title |-> "HTTP 409"]}

BodiesOf(status) ==
    IF status \in SuccessStatuses THEN PageBodies
    ELSE IF status = 409 THEN ErrorBodies \cup ConflictBodies
    ELSE ErrorBodies
HeadersOf(status) == IF status \in TransientStatuses THEN RetryAfterHeaders ELSE {NoHeader}

\* A completed response; json_ok is whether resp.json() parses.
Responses ==
    UNION {
      {[net |-> FALSE, msg |-> "", status |-> s, retry_after |-> h,
        json_ok |-> TRUE, json |-> b, text |-> ""] : h \in HeadersOf(s), b \in BodiesOf(s)}
      \cup
      {[net |-> FALSE, msg |-> "", status |-> s, retry_after |-> h,
        json_ok |-> FALSE, json |-> EmptyDict, text |-> "<html>"] : h \in HeadersOf(s)}
      : s \in Statuses}

\* A requests.RequestException raised by session.request, with its text.
NetFailures(url) ==
    {[net |-> TRUE, msg |-> m, status |-> 0, retry_after |-> NoHeader,
      json_ok |-> FALSE, json |-> EmptyDict, text |-> ""]
       : m \in {"Read timed out.", "Max retries exceeded with url: " \o url}}

Outcomes(url) == Responses \cup NetFailures(url)

\* a 200 response with a JSON body, and one whose body is not JSON
Ok(body) == [net |-> FALSE, msg |-> "", status |-> 200, retry_after |-> NoHeader,
             json_ok |-> TRUE, json |-> body, text |-> ""]
OkNotJson == [net |-> FALSE, msg |-> "", status |-> 200, retry_after |-> NoHeader,
              json_ok |-> FALSE, json |-> EmptyDict, text |-> "<html>"]
\* the failures: every response of a status outside the success set, and the
\* network failures
Failures(url) == {r \in Responses : r.status \notin SuccessStatuses} \cup NetFailures(url)

\* JSON scalars that reach str(): a text, a number, or None (a missing key)
JStr(s) == [t |-> "str", s |-> s, n |-> 0]
JInt(n) == [t |-> "int", s |-> "", n |-> n]
JNone   == [t |-> "none", s |-> "", n |-> 0]

\* Pages the title search can return (expand=ancestors): the ancestors' ids
\* are texts as Confluence sends them, or numbers; a result can lack the chain
\* and an ancestor can lack its id.
SearchPages ==
    {[id |-> "123",   title |-> "T", ancestors |-> <<[id |-> JStr("10")]>>],
     [id |-> "14093", title |-> "T", ancestors |-> <<[id |-> JStr("10")], [id |-> JStr("20")]>>],
     [id |-> "7",     title |-> "T", ancestors |-> <<[id |-> JInt(20)]>>],
     [id |-> "8",     title |-> "T"],
     [id |-> "9",     title |-> "T", ancestors |-> <<[title |-> "Home"]>>],
     [id |-> "11",    title |-> "T", ancestors |-> <<>>]}
ResultLists == UNION {[1..n -> SearchPages] : n \in 0..MaxResults}
SearchBodies == {[results |-> rs] : rs \in ResultLists} \cup {[size |-> 0]}
SearchAnswers(url) == {Ok(b) : b \in SearchBodies} \cup {OkNotJson} \cup Failures(url)

\* a few failures, one of each kind: a network failure, a transient status and
\* a status that raises at once
FewFailures(url) ==
    {f \in NetFailures(url) : f.msg = "Read timed out."}
    \cup {r \in Responses : /\ r.status \in {503, 404} /\ ~r.json_ok
                            /\ r.retry_after = NoHeader}

\* The server's list of the children of the listed page is fixed: lst.n pages,
\* here numbered 1..lst.n. A child listing is answered with the slice that the
\* start and limit parameters of the request ask for.
Children == [i \in 1..lst.n |-> i]
Slice(start, limit) ==
    SubSeq(Children, start + 1, IF start + limit < lst.n THEN start + limit ELSE lst.n)
ChildAnswers(url) ==
    {Ok([results |-> Slice(lst.sent[Len(lst.sent)].start, lst.sent[Len(lst.sent)].limit),
         start |-> lst.sent[Len(lst.sent)].start,
         limit |-> lst.sent[Len(lst.sent)].limit])}
    \cup FewFailures(url)

\* What the server answers while a command runs: to the title search no
\* result, or one of three pages; to the other requests a page, or a 409; and
\* the few failures.
CmdResultLists ==
    {<<>>} \cup {<<r>> : r \in {q \in SearchPages : q.id \in {"123", "14093", "8"}}}
CmdSearchAnswers(url) == {Ok([results |-> rs]) : rs \in CmdResultLists} \cup FewFailures(url)
CmdAnswers(url) ==
    {Ok([id |-> "123", type |-> "page", title |-> "T", version |-> [number |-> 1]])}
    \cup {r \in Responses : r.status = 409 /\ ~r.json_ok}
    \cup FewFailures(url)

NoOutcome == [net |-> FALSE, msg |-> "", status |-> 0, retry_after |-> NoHeader,
              json_ok |-> FALSE, json |-> EmptyDict, text |-> ""]

----------------------------------------------------------------------------
(* client.py: ConfluenceClient._request *)

\* url (client.py line 29)
Url(path) ==
    IF StartsWith(path, "/") THEN base_url \o path ELSE base_url \o "/" \o path

\* set(expected or {200, 201}) (client.py line 30); {} stands for None too
Expected(expected) == IF expected = {} THEN {200, 201} ELSE expected

\* a retry test that is off by one: attempt < self.retries
MayRetry_OffByOne(a) == a < retries

\* a retry test that counts the network failures only
MayRetry_NetworkOnly(a) == seen.net + 1 <= retries

\* attempt <= self.retries (client.py lines 37 and 48)
MayRetry(a) == a <= retries

\* self.backoff * (2 ** (attempt - 1)) (client.py lines 38 and 50), milliseconds
BackoffDelay(a) == backoff * (2 ^ (a - 1))

\* resp.status_code in (429, 500, 502, 503, 504) (client.py line 48)
IsTransient(status) == status \in TransientStatuses

Digits == "0123456789"
IsDigit(c) == \E d \in 1..10 : SubSeq(Digits, d, d) = c
DigitValue(c) == (CHOOSE d \in 1..10 : SubSeq(Digits, d, d) = c) - 1

RECURSIVE ToInt(_)
ToInt(s) ==
    IF Len(s) = 0 THEN 0
    ELSE 10 * ToInt(SubSeq(s, 1, Len(s) - 1)) + DigitValue(SubSeq(s, Len(s), Len(s)))

\* float(text): ok is FALSE where Python raises ValueError. Exact on the
\* texts of RetryAfterHeaders (strings of digits, and texts holding letters).
FloatOf(text) ==
    [ok |-> Len(text) > 0 /\ \A i \in 1..Len(text) : IsDigit(SubSeq(text, i, i)),
     ms |-> IF Len(text) > 0 /\ \A i \in 1..Len(text) : IsDigit(SubSeq(text, i, i))
            THEN 1000 * ToInt(text) ELSE 0]

\* a delay that takes the header value 0 for a missing header
RetryDelay_ZeroIsAbsent(o, a) ==
    IF o.retry_after.present /\ o.retry_after.value # "" /\ o.retry_after.value # "0"
    THEN FloatOf(o.retry_after.value)
    ELSE [ok |-> TRUE, ms |-> BackoffDelay(a)]

\* delay = float(retry_after) if retry_after else backoff * 2 ** (attempt - 1)
\* (client.py lines 49-50); ok is FALSE where float() raises
RetryDelay(o, a) ==
    IF o.retry_after.present /\ o.retry_after.value # ""
    THEN FloatOf(o.retry_after.value)
    ELSE [ok |-> TRUE, ms |-> BackoffDelay(a)]

\* the value returned for a response of an expected status (client.py lines 43-46)
ReturnValue(o) ==
    IF o.json_ok THEN o.json ELSE [raw |-> o.text, status |-> o.status]

\* payload handed to raise_for_status (client.py lines 56-60)
Payload(o) == IF o.json_ok THEN o.json ELSE EmptyDict

NoResult == [tag |-> "none", cls |-> "", msg |-> "", value |-> EmptyDict, cause |-> NoOutcome]
\* cause is the outcome that ended the call, without its headers
Cause(o) == [o EXCEPT !.retry_after = NoHeader]
Returned(v, o) ==
    [tag |-> "return", cls |-> "", msg |-> "", value |-> v, cause |-> Cause(o)]
Raised(c, m, o) ==
    [tag |-> "raise", cls |-> c, msg |-> m, value |-> EmptyDict, cause |-> Cause(o)]

\* last is the status code of the latest response (0: none, or a network
\* failure), retry_after its Retry-After header
NoSeen == [transient |-> 0, net |-> 0, success |-> 0, other |-> 0, last |-> 0,
           retry_after |-> NoHeader]

\* a call that goes on counting where the call before it stopped
BeginRequest_KeepsCount(method, path, expected) ==
    /\ rpc' = "loop"
    /\ req' = [method |-> method, url |-> Url(path), expected |-> Expected(expected)]
    /\ attempt' = attempt
    /\ calls' = calls
    /\ seen' = NoSeen
    /\ slept' = -1
    /\ result' = NoResult

\* A call of _request enters the loop (client.py lines 29-32).
BeginRequest(method, path, expected) ==
    /\ rpc' = "loop"
    /\ req' = [method |-> method, url |-> Url(path), expected |-> Expected(expected)]
    /\ attempt' = 0
    /\ calls' = 0
    /\ seen' = NoSeen
    /\ slept' = -1
    /\ result' = NoResult

\* The class of an outcome, for the counts in seen.
OutcomeClass(o) ==
    IF o.net THEN "net"
    ELSE IF o.status \in req.expected THEN "success"
    ELSE IF o.status \in TransientStatuses THEN "transient"
    ELSE "other"

\* One iteration of the while loop on outcome o of session.request
\* (client.py lines 33-61).
Iteration(o) ==
    LET a == attempt + 1
        r == raise_for_status(o.status, req.method \o " " \o req.url, Payload(o))
        d == RetryDelay(o, a)
    IN  /\ attempt' = a
        /\ calls' = calls + 1
        /\ seen' = IF upc = "idle"
                   THEN [seen EXCEPT ![OutcomeClass(o)] = @ + 1, !.last = o.status,
                                    !.retry_after = o.retry_after]
                   ELSE seen
        /\ IF o.net
           THEN IF MayRetry(a)
                THEN rpc' = "loop" /\ slept' = BackoffDelay(a) /\ result' = result
                ELSE rpc' = "raised" /\ slept' = -1
                     /\ result' = Raised("RequestException", o.msg, o)
           ELSE IF o.status \in req.expected
           THEN rpc' = "returned" /\ slept' = -1
                /\ result' = Returned(ReturnValue(o), o)
           ELSE IF IsTransient(o.status) /\ MayRetry(a)
           THEN IF d.ok
                THEN rpc' = "loop" /\ slept' = d.ms /\ result' = result
                ELSE rpc' = "raised" /\ slept' = -1
                     /\ result' = Raised("ValueError",
                            "could not convert string to float: '"
                              \o o.retry_after.value \o "'", o)
           ELSE IF r.raised
           THEN rpc' = "raised" /\ slept' = -1 /\ result' = Raised(r.cls, r.msg, o)
           ELSE \* raise_for_status returned: the while loop goes round again
                rpc' = "loop" /\ slept' = -1 /\ result' = result

\* What session.request can produce for the running call: the answers to a
\* title search while find_page_by_title runs, else any outcome.
Answers ==
    IF fnd.pc = "get"
    THEN IF cmd.pc = "idle" THEN SearchAnswers(req.url) ELSE CmdSearchAnswers(req.url)
    ELSE IF lst.pc = "get" THEN ChildAnswers(req.url)
    ELSE IF cmd.pc # "idle" THEN CmdAnswers(req.url)
    ELSE Outcomes(req.url)

\* What the server did with a write whose outcome the client sees as o: a
\* success answer means it applied the write, a client error other than 429
\* that it refused it; an exchange that failed or timed out, a 429 and a 5xx
\* leave both possible (the answer can be lost after the write was applied).
MayApply(o) ==
    IF ~o.net /\ o.status \in SuccessStatuses THEN {TRUE}
    ELSE IF ~o.net /\ o.status \in 400..499 /\ o.status # 429 THEN {FALSE}
    ELSE BOOLEAN

\* session.request is invoked once more and answers; srv counts the POSTs the
\* server applied.
Attempt ==
    /\ rpc = "loop"
    /\ calls < retries + 1 + MaxExtra
    /\ \E o \in Answers :
          /\ Iteration(o)
          /\ IF req.method = "POST"
             THEN \E applied \in MayApply(o) : srv' = IF applied THEN srv + 1 ELSE srv
             ELSE srv' = srv
    /\ UNCHANGED <<client, req, uframe, rfs, fnd, lst, conv, cmd, lnk, br>>

----------------------------------------------------------------------------
(* client.py: get_page and update_page *)

\* path of get_page and of update_page's PUT (client.py lines 143, 229, 245)
ContentPath(page_id) == "/rest/api/content/" \o page_id

\* int((current.get("version") or {}).get("number", 0)) (client.py lines 207, 241)
VersionNumber(current) ==
    IF "version" \in DOMAIN current /\ "number" \in DOMAIN current.version
    THEN current.version.number
    ELSE 0

\* the version number put in the payload (client.py lines 208, 215, 242)
NewVersion(current) == VersionNumber(current) + 1

\* the test of the except branch (client.py lines 236-237)
IsConflict(e, _retry) == _retry /\ Contains(e.msg, "409")

\* reqlog: one entry per _request invocation of update_page. version is the
\* payload's version number (0 for a GET); tag and cls are how the invocation
\* ended, and got is the version.number field of the JSON it returned (-1: the
\* value returned has no such field).
LogEntry(method, page_id, version) ==
    [method |-> method, url |-> Url(ContentPath(page_id)), version |-> version,
     tag |-> "none", cls |-> "", got |-> -1]

VersionField(value) ==
    IF "version" \in DOMAIN value THEN value.version.number ELSE -1

\* the latest entry of the log, closed with how the invocation ended
Closed(log) ==
    [log EXCEPT ![Len(log)].tag = result.tag,
                ![Len(log)].cls = result.cls,
                ![Len(log)].got = VersionField(result.value)]

NoUpdate == [page_id |-> "", retry |-> FALSE, version |-> 0]

Busy == rpc = "loop" \/ upc \in {"get1", "put1", "get2", "put2"}

\* update_page is called: current = self.get_page(page_id) starts
\* (client.py lines 189-206).
UpdatePageCall(page_id, _retry) ==
    /\ upc' = "get1"
    /\ upd' = [page_id |-> page_id, retry |-> _retry, version |-> 0]
    /\ reqlog' = <<LogEntry("GET", page_id, 0)>>
    /\ uresult' = NoResult
    /\ BeginRequest("GET", ContentPath(page_id), {})

\* A caller invokes update_page.
UpdatePage(page_id, _retry) ==
    /\ ~Busy
    /\ UpdatePageCall(page_id, _retry)
    /\ UNCHANGED <<client, rfs, others>>

\* The first get_page ended: an exception propagates, else the payload is
\* built and the PUT starts (client.py lines 206-233).
AfterGet1 ==
    /\ upc = "get1" /\ rpc \in {"returned", "raised"}
    /\ IF rpc = "raised"
       THEN /\ upc' = "done" /\ uresult' = result /\ reqlog' = Closed(reqlog)
            /\ UNCHANGED <<upd, frame>>
       ELSE /\ upc' = "put1"
            /\ upd' = [upd EXCEPT !.version = NewVersion(result.value)]
            /\ reqlog' = Append(Closed(reqlog),
                                LogEntry("PUT", upd.page_id, NewVersion(result.value)))
            /\ uresult' = uresult
            /\ BeginRequest("PUT", ContentPath(upd.page_id), {200})
    /\ UNCHANGED <<client, rfs, others>>

\* The first PUT ended: its value is returned; on an exception the except
\* branch either re-fetches the page or re-raises (client.py lines 226-250).
AfterPut1 ==
    /\ upc = "put1" /\ rpc \in {"returned", "raised"}
    /\ IF rpc = "raised" /\ IsConflict(result, upd.retry)
       THEN /\ upc' = "get2"
            /\ reqlog' = Append(Closed(reqlog), LogEntry("GET", upd.page_id, 0))
            /\ UNCHANGED <<upd, uresult>>
            /\ BeginRequest("GET", ContentPath(upd.page_id), {})
       ELSE /\ upc' = "done" /\ uresult' = result /\ reqlog' = Closed(reqlog)
            /\ UNCHANGED <<upd, frame>>
    /\ UNCHANGED <<client, rfs, others>>

\* an except branch that keeps the payload built from the first read
AfterGet2_StaleVersion ==
    /\ upc = "get2" /\ rpc \in {"returned", "raised"}
    /\ IF rpc = "raised"
       THEN /\ upc' = "done" /\ uresult' = result /\ reqlog' = Closed(reqlog)
            /\ UNCHANGED <<upd, frame>>
       ELSE /\ upc' = "put2"
            /\ upd' = upd
            /\ reqlog' = Append(Closed(reqlog), LogEntry("PUT", upd.page_id, upd.version))
            /\ uresult' = uresult
            /\ BeginRequest("PUT", ContentPath(upd.page_id), {200})
    /\ UNCHANGED <<client, rfs, others>>

\* The second get_page ended: an exception propagates, else the version is
\* recomputed and the second PUT starts (client.py lines 240-249).
AfterGet2 ==
    /\ upc = "get2" /\ rpc \in {"returned", "raised"}
    /\ IF rpc = "raised"
       THEN /\ upc' = "done" /\ uresult' = result /\ reqlog' = Closed(reqlog)
            /\ UNCHANGED <<upd, frame>>
       ELSE /\ upc' = "put2"
            /\ upd' = [upd EXCEPT !.version = NewVersion(result.value)]
            /\ reqlog' = Append(Closed(reqlog),
                                LogEntry("PUT", upd.page_id, NewVersion(result.value)))
            /\ uresult' = uresult
            /\ BeginRequest("PUT", ContentPath(upd.page_id), {200})
    /\ UNCHANGED <<client, rfs, others>>

\* a second PUT that is itself retried on a conflict
AfterPut2_RetryAgain ==
    /\ upc = "put2" /\ rpc \in {"returned", "raised"}
    /\ IF rpc = "raised" /\ IsConflict(result, upd.retry)
       THEN /\ upc' = "get2"
            /\ reqlog' = Append(Closed(reqlog), LogEntry("GET", upd.page_id, 0))
            /\ UNCHANGED <<upd, uresult>>
            /\ BeginRequest("GET", ContentPath(upd.page_id), {})
       ELSE /\ upc' = "done" /\ uresult' = result /\ reqlog' = Closed(reqlog)
            /\ UNCHANGED <<upd, frame>>
    /\ UNCHANGED <<client, rfs, others>>

\* The second PUT ended: its value or its exception is update_page's
\* (client.py lines 243-249).
AfterPut2 ==
    /\ upc = "put2" /\ rpc \in {"returned", "raised"}
    /\ upc' = "done" /\ uresult' = result /\ reqlog' = Closed(reqlog)
    /\ UNCHANGED <<upd, frame, client, rfs, others>>

----------------------------------------------------------------------------
(* client.py: find_page_by_title *)

DigitText(d) == SubSeq(Digits, d + 1, d + 1)

\* str(n) for an int n
RECURSIVE IntToStr(_)
IntToStr(n) ==
    IF n < 0 THEN "-" \o IntToStr(0 - n)
    ELSE IF n < 10 THEN DigitText(n)
    ELSE IntToStr(n \div 10) \o DigitText(n % 10)

\* str(x) for a JSON scalar or None
PyStr(x) ==
    IF x.t = "str" THEN x.s ELSE IF x.t = "int" THEN IntToStr(x.n) ELSE "None"

\* res.get("results", []) (client.py line 178)
Results(res) == IF "results" \in DOMAIN res THEN res.results ELSE <<>>
\* r.get("ancestors", []) and anc.get("id") (client.py lines 184-185)
Ancestors(r) == IF "ancestors" \in DOMAIN r THEN r.ancestors ELSE <<>>
AncestorId(anc) == IF "id" \in DOMAIN anc THEN anc.id ELSE JNone

\* what find_page_by_title returns: a result, or None
NoPage == [found |-> FALSE, page |-> EmptyDict]
Page(r) == [found |-> TRUE, page |-> r]

\* the inner loop over r's ancestors, from the k-th on (client.py lines 184-186)
RECURSIVE AncestorsMatch(_, _, _)
AncestorsMatch(r, k, parent_id) ==
    IF k > Len(Ancestors(r)) THEN FALSE
    ELSE IF PyStr(AncestorId(Ancestors(r)[k])) = PyStr(parent_id) THEN TRUE
    ELSE AncestorsMatch(r, k + 1, parent_id)

\* an outer loop that returns the first result that has ancestors at all
RECURSIVE FirstMatch_AnyAncestor(_, _, _)
FirstMatch_AnyAncestor(results, i, parent_id) ==
    IF i > Len(results) THEN NoPage
    ELSE IF Len(Ancestors(results[i])) > 0 THEN Page(results[i])
    ELSE FirstMatch_AnyAncestor(results, i + 1, parent_id)

\* the outer loop over the results, from the i-th on (client.py lines 183-187)
RECURSIVE FirstMatch(_, _, _)
FirstMatch(results, i, parent_id) ==
    IF i > Len(results) THEN NoPage
    ELSE IF AncestorsMatch(results[i], 1, parent_id) THEN Page(results[i])
    ELSE FirstMatch(results, i + 1, parent_id)

\* the value find_page_by_title returns for the response res
\* (client.py lines 178-187)
FindResult(res, parent_id) ==
    IF Results(res) = <<>> THEN NoPage
    ELSE IF parent_id = JNone THEN Page(Results(res)[1])
    ELSE FirstMatch(Results(res), 1, parent_id)

NoFind == [pc |-> "idle", title |-> "", space_key |-> "", parent_id |-> JNone,
           tag |-> "none", out |-> NoPage]

\* find_page_by_title sends its GET (client.py lines 165-177)
FindCall(title, space_key, parent_id) ==
    /\ fnd' = [pc |-> "get", title |-> title, space_key |-> space_key,
               parent_id |-> parent_id, tag |-> "none", out |-> NoPage]
    /\ BeginRequest("GET", "/rest/api/content", {})

\* A caller invokes find_page_by_title.
FindPageByTitle(title, space_key, parent_id) ==
    /\ ~Busy /\ fnd.pc # "get"
    /\ FindCall(title, space_key, parent_id)
    /\ UNCHANGED <<client, uframe, rfs, lst, conv, cmd, env>>

\* The GET ended: its exception propagates, else the results are filtered
\* (client.py lines 166-187).
AfterFind ==
    /\ fnd.pc = "get" /\ rpc \in {"returned", "raised"}
    /\ fnd' = [fnd EXCEPT !.pc = "done", !.tag = result.tag,
                          !.out = IF rpc = "raised" THEN NoPage
                                  ELSE FindResult(result.value, fnd.parent_id)]
    /\ UNCHANGED <<client, frame, uframe, rfs, lst, conv, cmd, env>>

----------------------------------------------------------------------------
(* client.py: list_children and list_all_children *)

LimitCap == 100     \* min(limit, 100) (client.py line 278)
PageSize == 100     \* limit=100, len(chunk) < 100, start += 100 (client.py lines 293-299)

\* a clamp without the lower end
ClampLimit_NoFloor(limit) == IF limit > LimitCap THEN LimitCap ELSE limit

\* max(1, min(limit, 100)) and max(0, start) (client.py lines 278-279)
ClampLimit(limit) ==
    IF limit > LimitCap THEN LimitCap ELSE IF limit < 1 THEN 1 ELSE limit
ClampStart(start) == IF start < 0 THEN 0 ELSE start

\* path of the child listing (client.py line 283)
ChildPath(page_id) == "/rest/api/content/" \o page_id \o "/child/page"

NoList == [pc |-> "idle", page_id |-> "", n |-> 0, start |-> 0, out |-> <<>>,
           sent |-> <<>>, tag |-> "none"]

\* list_children sends its GET with the clamped parameters
\* (client.py lines 276-283); sent is the log of the parameters sent
ListChildrenCall(l, page_id, limit, start) ==
    /\ lst' = [l EXCEPT !.sent = Append(@, [start |-> ClampStart(start),
                                            limit |-> ClampLimit(limit)])]
    /\ BeginRequest("GET", ChildPath(page_id), {})

\* a loop that advances by one less than the page size
NextStart_Overlap(start) == start + PageSize - 1

\* start += 100 (client.py line 299)
NextStart(start) == start + PageSize

\* list_all_children is called: the first chunk is asked for
\* (client.py lines 286-293).
ListAllChildren(page_id) ==
    /\ ~Busy /\ lst.pc # "get" /\ fnd.pc # "get"
    /\ ListChildrenCall([lst EXCEPT !.pc = "get", !.page_id = page_id, !.start = 0,
                                   !.out = <<>>, !.sent = <<>>, !.tag = "none"],
                        page_id, PageSize, 0)
    /\ UNCHANGED <<client, uframe, rfs, fnd, conv, cmd, env>>

\* list_children ended: its exception propagates; else the chunk is appended
\* and the loop ends on an empty or short chunk, or asks for the next chunk
\* (client.py lines 283-300).
AfterChunk ==
    /\ lst.pc = "get" /\ rpc \in {"returned", "raised"}
    /\ LET chunk == Results(result.value)
       IN  IF rpc = "raised"
           THEN lst' = [lst EXCEPT !.pc = "done", !.tag = "raise"] /\ UNCHANGED frame
           ELSE IF chunk = <<>>
           THEN lst' = [lst EXCEPT !.pc = "done", !.tag = "return"] /\ UNCHANGED frame
           ELSE IF Len(chunk) < PageSize
           THEN /\ lst' = [lst EXCEPT !.pc = "done", !.tag = "return", !.out = @ \o chunk]
                /\ UNCHANGED frame
           ELSE ListChildrenCall([lst EXCEPT !.out = @ \o chunk,
                                             !.start = NextStart(lst.start)],
                                 lst.page_id, PageSize, NextStart(lst.start))
    /\ UNCHANGED <<client, uframe, rfs, fnd, conv, cmd, env>>

----------------------------------------------------------------------------
(* converters/markdown.py: convert_md_to_html *)

\* The base class of an exception class ("" for Exception itself):
\* class PandocNotFound(RuntimeError) (markdown.py line 9) and the built-ins.
BaseOf(cls) ==
    CASE cls = "PandocNotFound" -> "RuntimeError"
      [] cls = "FileNotFoundError" -> "OSError"
      [] cls = "Exception" -> ""
      [] OTHER -> "Exception"

\* isinstance(e, base) for an exception e of class cls
RECURSIVE IsInstance(_, _)
IsInstance(cls, base) ==
    IF cls = "" THEN FALSE
    ELSE IF cls = base THEN TRUE
    ELSE IsInstance(BaseOf(cls), base)

\* shlex.split(s) on texts of plain characters, spaces and double quotes:
\* spaces outside quotes end a word, quotes group and are dropped, and an
\* unclosed quote raises ValueError (ok is FALSE).
RECURSIVE Lex(_, _, _, _, _, _)
Lex(s, i, cur, tok, inq, words) ==
    IF i > Len(s)
    THEN IF inq THEN [ok |-> FALSE, words |-> <<>>]
         ELSE [ok |-> TRUE, words |-> IF tok THEN Append(words, cur) ELSE words]
    ELSE IF SubSeq(s, i, i) = "\""
    THEN Lex(s, i + 1, cur, TRUE, ~inq, words)
    ELSE IF SubSeq(s, i, i) = " " /\ ~inq
    THEN Lex(s, i + 1, "", FALSE, FALSE, IF tok THEN Append(words, cur) ELSE words)
    ELSE Lex(s, i + 1, cur \o SubSeq(s, i, i), TRUE, inq, words)

ShlexSplit(s) == Lex(s, 1, "", FALSE, FALSE, <<>>)

\* repr of a list of texts, as str(CalledProcessError) shows the command
RECURSIVE ListRepr(_, _)
ListRepr(args, k) ==
    IF k > Len(args) THEN ""
    ELSE (IF k > 1 THEN ", " ELSE "") \o "'" \o args[k] \o "'" \o ListRepr(args, k + 1)

\* the command line (markdown.py lines 23-25)
PandocCommand(input_md, html_out, words) ==
    <<"pandoc", input_md, "-f", "gfm", "-t", "html", "-o", html_out>> \o words

\* a check that never raises
_ensure_pandoc_Never(on_path) == FALSE

\* _ensure_pandoc raises PandocNotFound: not shutil.which("pandoc")
\* (markdown.py lines 13-15)
_ensure_pandoc(on_path) == ~on_path

\* conv: on_path is whether pandoc is on PATH and files the output files that
\* exist; before is files as the running call found it, spawned the
\* subprocess.run invocations of the call and code the exit status (-1: none).
NoConv == [pc |-> "idle", on_path |-> TRUE, files |-> {}, before |-> {},
           input_md |-> "", html_out |-> "", args |-> <<>>, spawned |-> 0, code |-> -1,
           tag |-> "none", cls |-> "", msg |-> ""]

ConvRaise(c, cls, msg) == [c EXCEPT !.pc = "done", !.tag = "raise", !.cls = cls, !.msg = msg]

\* convert_md_to_html up to the start of the subprocess (markdown.py lines 18-27)
ConvertCall(input_md, html_out, pandoc_args) ==
    LET c  == [conv EXCEPT !.input_md = input_md, !.html_out = html_out,
                           !.before = conv.files, !.args = <<>>, !.spawned = 0,
                           !.code = -1, !.tag = "none", !.cls = "", !.msg = ""]
        sp == IF pandoc_args # "" THEN ShlexSplit(pandoc_args)
              ELSE [ok |-> TRUE, words |-> <<>>]
    IN  IF _ensure_pandoc(conv.on_path)
        THEN conv' = ConvRaise(c, "PandocNotFound",
                               "pandoc not found on PATH. Install pandoc and retry.")
        ELSE IF ~sp.ok
        THEN conv' = ConvRaise(c, "ValueError", "No closing quotation")
        ELSE conv' = [c EXCEPT !.pc = "run", !.spawned = 1,
                               !.args = PandocCommand(input_md, html_out, sp.words)]

\* A caller invokes convert_md_to_html.
ConvertMdToHtml(input_md, html_out, pandoc_args) ==
    /\ conv.pc # "run"
    /\ ConvertCall(input_md, html_out, pandoc_args)
    /\ UNCHANGED <<client, frame, uframe, rfs, fnd, lst, cmd, env>>

\* subprocess.run ended with exit status code, having written the output file
\* or not; the rest of convert_md_to_html (markdown.py lines 26-32)
PandocEnd(code, wrote) ==
    LET files == IF wrote THEN conv.files \cup {conv.html_out} ELSE conv.files
        c     == [conv EXCEPT !.files = files, !.code = code]
    IN  IF code # 0
        THEN conv' = ConvRaise(c, "RuntimeError",
                        "pandoc failed: Command '[" \o ListRepr(conv.args, 1)
                          \o "]' returned non-zero exit status " \o IntToStr(code) \o ".")
        ELSE IF conv.html_out \notin files
        THEN conv' = ConvRaise(c, "RuntimeError",
                        "Expected output not found: " \o conv.html_out)
        ELSE conv' = [c EXCEPT !.pc = "done", !.tag = "return"]

ExitCodes == {0, 1}

\* The subprocess ends, or could not be started (the binary went away after
\* the check: the OSError of subprocess.run is not caught).
PandocExits ==
    /\ conv.pc = "run"
    /\ \/ \E code \in ExitCodes, wrote \in BOOLEAN : PandocEnd(code, wrote)
       \/ conv' = ConvRaise(conv, "FileNotFoundError",
                            "[Errno 2] No such file or directory: 'pandoc'")
    /\ UNCHANGED <<client, frame, uframe, rfs, fnd, lst, cmd, env>>

----------------------------------------------------------------------------
(* client.py: page_link and create_page *)

NoLink == [some |-> FALSE, url |-> ""]
Link(u) == [some |-> TRUE, url |-> u]

\* a page_link that needs the id whatever links the page carries
PageLink_NeedsId(page_json) ==
    IF page_json = EmptyDict \/ GetText(page_json, "id") = "" THEN NoLink
    ELSE Link(RStripChar(base_url, "/") \o "/pages/" \o GetText(page_json, "id"))

\* page_link (client.py lines 63-106); a missing or empty text field is ""
PageLink(page_json) ==
    LET links     == IF "_links" \in DOMAIN page_json THEN page_json._links ELSE EmptyDict
        b         == RStripChar(base_url, "/")
        webui     == GetText(links, "webui")
        base      == GetText(links, "base")
        tinyui    == GetText(links, "tinyui")
        page_id   == GetText(page_json, "id")
        space_key == IF "space" \in DOMAIN page_json
                     THEN GetText(page_json.space, "key") ELSE ""
    IN  IF page_json = EmptyDict THEN NoLink
        ELSE IF webui # ""
        THEN IF base # "" THEN Link(base \o webui)
             ELSE IF StartsWith(webui, "/") THEN Link(b \o webui)
             ELSE Link(b \o "/" \o webui)
        ELSE IF tinyui # ""
        THEN IF StartsWith(tinyui, "/") THEN Link(b \o tinyui)
             ELSE Link(b \o "/" \o tinyui)
        ELSE IF page_id # ""
        THEN IF EndsWith(b, "/wiki")
             THEN IF space_key # ""
                  THEN Link(b \o "/spaces/" \o space_key \o "/pages/" \o page_id)
                  ELSE Link(b \o "/pages/" \o page_id)
             ELSE Link(b \o "/pages/" \o page_id)
        ELSE NoLink

\* lnk: the latest page_link call made directly
NoLinkCall == [called |-> FALSE, page_json |-> EmptyDict, out |-> NoLink]

PageLinkCall(page_json) ==
    /\ ~Busy
    /\ lnk' = [called |-> TRUE, page_json |-> page_json, out |-> PageLink(page_json)]
    /\ UNCHANGED <<client, frame, uframe, rfs, fnd, lst, conv, cmd, srv, br>>

\* create_page sends its POST (client.py lines 122-138)
CreatePageCall == BeginRequest("POST", "/rest/api/content", {})

\* create_page called directly
CreatePage ==
    /\ ~Busy
    /\ CreatePageCall
    /\ srv' = 0
    /\ UNCHANGED <<client, uframe, rfs, fnd, lst, conv, cmd, lnk, br>>

----------------------------------------------------------------------------
(* commands/browse.py: the interactive browser *)

\* The server answers a browser's client call at once: the key handlers are
\* synchronous and the retries of _request do not show in the browser's state.
\* ids of the pages a listing or a search returns, in the server's order
ListedIds == <<"11", "12">>
ItemLists == {SubSeq(ListedIds, 1, n) : n \in 0..Len(ListedIds)}
HomeId == "1"

\* get_page: the page, or an exception (client.py lines 140-145)
GetPageOutcomes(pid) ==
    {[ok |-> TRUE, page |-> [id |-> pid, title |-> "Page " \o pid]],
     [ok |-> FALSE, page |-> EmptyDict]}
\* list_children and search_cql: at most limit pages, or an exception
ListOutcomes(limit) ==
    {[ok |-> TRUE, items |-> l] : l \in {x \in ItemLists : Len(x) <= limit}}
    \cup {[ok |-> FALSE, items |-> <<>>]}
\* get_space_homepage: the id, None (""), or an exception (client.py lines 109-119)
HomepageOutcomes ==
    {[ok |-> TRUE, home |-> HomeId], [ok |-> TRUE, home |-> ""], [ok |-> FALSE, home |-> ""]}
\* get_page_rendered_html: the HTML, "" or an exception (client.py lines 147-163)
HtmlOutcomes ==
    {[ok |-> TRUE, html |-> "<p>Hi</p>"], [ok |-> TRUE, html |-> ""], [ok |-> FALSE, html |-> ""]}

\* the limit and start parameters the three listing methods send
\* (client.py lines 262-263, 278-279, 308-309)
ListPagesParams(limit, start) ==
    [op |-> "list_pages_in_space", limit |-> ClampLimit(limit), start |-> ClampStart(start)]
ListChildrenParams(limit, start) ==
    [op |-> "list_children", limit |-> ClampLimit(limit), start |-> ClampStart(start)]
SearchCqlParams(limit, start) ==
    [op |-> "search_cql", limit |-> ClampLimit(limit), start |-> ClampStart(start)]

MinSize == 5        \* max(5, page_size - 5) (browse.py line 636)
MaxSize == 100      \* min(100, page_size + 5) (browse.py line 646)
SizeStep == 5       \* page_size - 5, page_size + 5 (browse.py lines 636, 646)
InitialSize == 25   \* page_size = 25 (browse.py line 288)

PyMax(a, b) == IF a >= b THEN a ELSE b
PyMin(a, b) == IF a <= b THEN a ELSE b

\* mark: where the latest right key was pressed (phase "drilled"), kept by a
\* left key that follows at once (phase "returned"), dropped by any other key
NoMark == [phase |-> "none", arg |-> "", start |-> 0, index |-> 0, stack |-> <<>>]
NoOpts == [limit |-> 0, start |-> 0]

\* br: pc is idle, running (the Application runs), exited (event.app.exit()),
\* crashed (an exception ended the command) or done (a listing command
\* ended). arg "" is None; index counts from 0 as in the source; stack holds
\* (arg, start, index), its mode is always "children". key is the latest key,
\* listed the listing requests its handler sent, opts the --limit and --start
\* of a listing command. The texts the browser shows (status_msg,
\* header_title, the overlay's title and text) are written by the handlers
\* and read by none of them: they are not part of br.
NoBrowse ==
    [pc |-> "idle", space |-> "", arg |-> "", page_size |-> InitialSize, start |-> 0,
     items |-> <<>>, index |-> 0, stack |-> <<>>, visible |-> FALSE,
     key |-> "", listed |-> <<>>, mark |-> NoMark, opts |-> NoOpts]

\* the list state of the browser
ListState(b) == <<b.items, b.index, b.start, b.page_size, b.stack, b.arg>>

\* An exception leaves a key handler or a background task: prompt_toolkit
\* either reports it and the Application goes on, or the run ends. The
\* assignments made before the raise stay.
Uncaught(b) == {b, [b EXCEPT !.pc = "crashed"]}

\* load() (browse.py lines 341-352)
Load(b) ==
    IF b.arg = ""
    THEN {[b EXCEPT !.items = <<>>]}
    ELSE LET p == ListChildrenParams(b.page_size, b.start)
         IN  {[b EXCEPT !.items = IF o.ok THEN o.items ELSE <<>>,
                        !.listed = Append(@, p)]
              : o \in ListOutcomes(p.limit)}

\* goto_space (browse.py lines 326-339)
GotoSpace(b, space) ==
    LET b1 == [b EXCEPT !.space = space]
    IN  UNION {
          IF ~h.ok THEN Uncaught(b1)
          ELSE IF h.home = ""
          THEN {[b1 EXCEPT !.arg = "", !.items = <<>>]}
          ELSE UNION {
                 IF ~g.ok THEN Uncaught(b1)
                 ELSE Load([b1 EXCEPT !.arg = h.home, !.start = 0, !.index = 0])
                 : g \in GetPageOutcomes(h.home)}
          : h \in HomepageOutcomes}

\* close_overlay (browse.py lines 415-424)
CloseOverlay(b) == IF b.visible THEN [b EXCEPT !.visible = FALSE] ELSE b

\* a q handler that quits whether the overlay is open or not
OnQuit_Always(b) == {[b EXCEPT !.pc = "exited"]}

\* the q handler (browse.py lines 426-432)
OnQuit(b) == IF b.visible THEN {CloseOverlay(b)} ELSE {[b EXCEPT !.pc = "exited"]}

\* the up and down handlers (browse.py lines 434-449)
OnUp(b) ==
    IF b.visible THEN {b}
    ELSE IF b.items # <<>> THEN {[b EXCEPT !.index = PyMax(0, b.index - 1)]} ELSE {b}
OnDown(b) ==
    IF b.visible THEN {b}
    ELSE IF b.items # <<>>
    THEN {[b EXCEPT !.index = PyMin(Len(b.items) - 1, b.index + 1)]} ELSE {b}

\* items[index]: the id, or IndexError (no negative index arises)
InRange(b) == b.index < Len(b.items)
Selected(b) == b.items[b.index + 1]

\* the enter handler (browse.py lines 451-465): webbrowser.open and the
\* status text are its only effects
OnEnter(b) ==
    IF b.visible \/ b.items = <<>> THEN {b}
    ELSE IF ~InRange(b) THEN Uncaught(b)
    ELSE UNION {IF ~g.ok THEN Uncaught(b) ELSE {b} : g \in GetPageOutcomes(Selected(b))}

\* the v handler (browse.py lines 467-494): it does not test the overlay
OnView(b) ==
    IF b.items = <<>> THEN {b}
    ELSE IF ~InRange(b) THEN Uncaught(b)
    ELSE UNION {
           IF ~g.ok THEN {b}
           ELSE {IF h.ok /\ h.html # "" THEN [b EXCEPT !.visible = TRUE] ELSE b
                 : h \in HtmlOutcomes}
           : g \in GetPageOutcomes(Selected(b))}

\* a right handler that pushes the position it moves to
OnRight_PushesNew(b) ==
    IF b.visible \/ b.items = <<>> THEN {b}
    ELSE IF ~InRange(b) THEN Uncaught(b)
    ELSE LET pid == Selected(b)
             b1  == [b EXCEPT !.stack = Append(@, [arg |-> pid, start |-> 0, index |-> 0])]
         IN  UNION {
               IF ~g.ok THEN Uncaught(b1)
               ELSE Load([b1 EXCEPT !.arg = pid, !.start = 0, !.index = 0])
               : g \in GetPageOutcomes(pid)}

\* the right handler (browse.py lines 496-508)
OnRight(b) ==
    IF b.visible \/ b.items = <<>> THEN {b}
    ELSE IF ~InRange(b) THEN Uncaught(b)
    ELSE LET pid == Selected(b)
             b1  == [b EXCEPT !.stack = Append(@, [arg |-> b.arg, start |-> b.start,
                                                   index |-> b.index])]
         IN  UNION {
               IF ~g.ok THEN Uncaught(b1)
               ELSE Load([b1 EXCEPT !.arg = pid, !.start = 0, !.index = 0])
               : g \in GetPageOutcomes(pid)}

\* mode, arg, start, index = stack.pop() (browse.py lines 518, 534)
Pop(b) ==
    LET top == b.stack[Len(b.stack)]
    IN  [b EXCEPT !.stack = SubSeq(@, 1, Len(@) - 1),
                  !.arg = top.arg, !.start = top.start, !.index = top.index]

\* the left handler (browse.py lines 510-522)
OnLeft(b) ==
    IF b.visible \/ b.stack = <<>> THEN {b}
    ELSE LET b1 == Pop(b)
         IN  IF b1.arg = "" THEN Load(b1)
             ELSE UNION {IF ~g.ok THEN Uncaught(b1) ELSE Load(b1)
                         : g \in GetPageOutcomes(b1.arg)}

\* the escape handler (browse.py lines 525-541)
OnEscape(b) ==
    IF b.visible THEN {CloseOverlay(b)}
    ELSE IF b.stack = <<>> THEN {b}
    ELSE Load(Pop(b))

\* what an input dialog returns: None (cancelled) or the text typed. The
\* dialog takes the keys while it is open, so the handler and its task are
\* one step.
Queries  == {JNone, JStr(" "), JStr(" x ")}
SpaceInputs == {JNone, JStr(""), JStr("DOC ")}
IdInputs == {JNone, JStr(" "), JStr("abc"), JStr(" 12 ")}

\* str.isdigit()
StrIsDigit(s) == s # "" /\ \A i \in 1..Len(s) : Contains(Digits, SubSeq(s, i, i))

\* the / handler and its task do_search (browse.py lines 543-566)
OnSearch(b, q) ==
    IF b.visible THEN {b}
    ELSE IF q = JNone \/ Strip(q.s) = "" THEN {b}
    ELSE LET p == SearchCqlParams(b.page_size, 0)
             c == [b EXCEPT !.listed = Append(@, p)]
         IN  {IF ~o.ok THEN c ELSE [c EXCEPT !.items = o.items, !.start = 0, !.index = 0]
              : o \in ListOutcomes(p.limit)}

\* the s handler and its task choose_space (browse.py lines 568-580)
OnSpace(b, sp) ==
    IF b.visible THEN {b}
    ELSE IF sp = JNone \/ Strip(sp.s) = "" THEN {b}
    ELSE GotoSpace([b EXCEPT !.stack = <<>>], Strip(sp.s))

\* the g handler and its task go_to_id (browse.py lines 582-611)
OnGoto(b, pid_raw) ==
    IF b.visible THEN {b}
    ELSE IF pid_raw = JNone THEN {b}
    ELSE LET pid == Strip(pid_raw.s)
         IN  IF pid = "" \/ ~StrIsDigit(pid) THEN {b}
             ELSE UNION {
                    IF ~g.ok THEN {b}
                    ELSE Load([b EXCEPT !.arg = pid, !.start = 0, !.index = 0])
                    : g \in GetPageOutcomes(pid)}

\* the n and p handlers (browse.py lines 613-629)
OnNext(b) ==
    IF b.visible THEN {b}
    ELSE Load([b EXCEPT !.start = b.start + b.page_size, !.index = 0])
OnPrev(b) ==
    IF b.visible THEN {b}
    ELSE Load([b EXCEPT !.start = PyMax(0, b.start - b.page_size), !.index = 0])

\* a [ handler that does not stop at the smallest size
OnShrink_NoFloor(b) ==
    IF b.visible THEN {b}
    ELSE Load([b EXCEPT !.page_size = b.page_size - SizeStep, !.start = 0, !.index = 0])

\* the [ and ] handlers (browse.py lines 631-649)
OnShrink(b) ==
    IF b.visible THEN {b}
    ELSE Load([b EXCEPT !.page_size = PyMax(MinSize, b.page_size - SizeStep),
                        !.start = 0, !.index = 0])
OnGrow(b) ==
    IF b.visible THEN {b}
    ELSE Load([b EXCEPT !.page_size = PyMin(MaxSize, b.page_size + SizeStep),
                        !.start = 0, !.index = 0])

\* a refresh that works under the overlay
OnRefresh_NoGuard(b) == Load(b)

\* the r handler (browse.py lines 651-655)
OnRefresh(b) == IF b.visible THEN {b} ELSE Load(b)

\* A key reaches its handler while the Application runs.
Pressed(k) == [br EXCEPT !.key = k, !.listed = <<>>, !.mark = NoMark]
KeyPress(results) ==
    /\ br.pc = "running"
    /\ br' \in results
    /\ UNCHANGED <<client, frame, uframe, rfs, fnd, lst, conv, cmd, srv, lnk>>

Quit     == KeyPress(OnQuit(Pressed("q")))
Up       == KeyPress(OnUp(Pressed("up")))
Down     == KeyPress(OnDown(Pressed("down")))
Enter    == KeyPress(OnEnter(Pressed("enter")))
View     == KeyPress(OnView(Pressed("v")))
\* a right key that pushed on the back stack leaves its mark
Right ==
    KeyPress({IF Len(r.stack) > Len(br.stack)
              THEN [r EXCEPT !.mark = [phase |-> "drilled", arg |-> br.arg,
                                       start |-> br.start, index |-> br.index,
                                       stack |-> br.stack]]
              ELSE r
              : r \in {x \in OnRight(Pressed("right")) : Len(x.stack) <= MaxDepth}})
Left ==
    KeyPress({IF br.mark.phase = "drilled"
              THEN [r EXCEPT !.mark = [br.mark EXCEPT !.phase = "returned"]]
              ELSE r
              : r \in OnLeft(Pressed("left"))})
Escape   == KeyPress(OnEscape(Pressed("escape")))
Search   == \E q \in Queries : KeyPress(OnSearch(Pressed("/"), q))
SwitchSpace == \E sp \in SpaceInputs : KeyPress(OnSpace(Pressed("s"), sp))
GoTo     == \E id \in IdInputs : KeyPress(OnGoto(Pressed("g"), id))
NextPage == br.start + br.page_size <= MaxStart /\ KeyPress(OnNext(Pressed("n")))
PrevPage == KeyPress(OnPrev(Pressed("p")))
Shrink   == KeyPress(OnShrink(Pressed("[")))
Grow     == KeyPress(OnGrow(Pressed("]")))
Refresh  == KeyPress(OnRefresh(Pressed("r")))

\* interactive is run: the initial view, then app.run() (browse.py lines
\* 277-295 and 657-673). An exception here ends the command.
Interactive(space) ==
    /\ br.pc = "idle"
    /\ LET b == [NoBrowse EXCEPT !.pc = "running", !.space = space]
       IN  br' \in
             IF space = "" THEN {b}
             ELSE UNION {
                    IF ~h.ok THEN {[b EXCEPT !.pc = "crashed"]}
                    ELSE IF h.home = "" THEN {b}
                    ELSE UNION {
                           IF ~g.ok THEN {[b EXCEPT !.pc = "crashed"]}
                           ELSE Load([b EXCEPT !.arg = h.home])
                           : g \in GetPageOutcomes(h.home)}
                    : h \in HomepageOutcomes}
    /\ UNCHANGED <<client, frame, uframe, rfs, fnd, lst, conv, cmd, srv, lnk>>

\* browse list, browse children and browse search hand --limit and --start
\* to the client method (browse.py lines 53, 84, 157)
ListCommand(op, limit, start) ==
    /\ br.pc = "idle"
    /\ br' = [NoBrowse EXCEPT
                !.pc = "done", !.key = op, !.opts = [limit |-> limit, start |-> start],
                !.listed = <<IF op = "list" THEN ListPagesParams(limit, start)
                             ELSE IF op = "children" THEN ListChildrenParams(limit, start)
                             ELSE SearchCqlParams(limit, start)>>]
    /\ UNCHANGED <<client, frame, uframe, rfs, fnd, lst, conv, cmd, srv, lnk>>

----------------------------------------------------------------------------
(* commands/create_document.py and commands/update_document.py *)

SuffixMax == 20     \* MAX = 20 (create_document.py line 215)

\* _date.today() and the day before, in the default --date-format
Today == "2025-08-24"
Yesterday == "2025-08-23"
\* the temporary Markdown file of --edit (create_document.py line 124)
TempMd == "/tmp/confluence-create-x.md"

\* cmd: the options the run still reads, its position, and what it did:
\* api is the log of the client methods it called, dup the outcome of the
\* duplicate check, tmp whether the temporary Markdown file exists, exit the
\* exit status (-1: running) and err the exception that ended the run.
NoCmd == [name |-> "", pc |-> "idle", dry_run |-> FALSE, if_exists |-> "fail",
          update_if_exists |-> FALSE, strategy |-> "fail", labels |-> <<>>,
          edit |-> FALSE, title |-> "", space_key |-> "", parent |-> JNone,
          page_id |-> "", md |-> "", html |-> "", pandoc_args |-> "",
          tmp |-> FALSE, i |-> 0, dup |-> "unknown", api |-> <<>>,
          opened |-> FALSE, preview |-> EmptyDict, label_warning |-> FALSE,
          exit |-> -1, err |-> ""]

\* The run ends with an exit status: 0 for a return or SystemExit(0), 2 for
\* SystemExit(2) and click.UsageError, 1 for SystemExit(message) and for an
\* exception that propagates. The finally clause removes the temporary file
\* (create_document.py lines 277-284).
CmdExit(c, code, err) == [c EXCEPT !.pc = "exit", !.exit = code, !.err = err, !.tmp = FALSE]

Called(c, op, method, title) ==
    [c EXCEPT !.api = Append(@, [op |-> op, method |-> method, title |-> title])]

\* str(parent_id) if parent_id else None (create_document.py line 171,
\* update_document.py line 51)
ParentArg(parent_page_id) ==
    IF parent_page_id # 0 THEN JStr(IntToStr(parent_page_id)) ELSE JNone

\* --update-if-exists replaces the strategy 'fail' (create_document.py lines 90-91)
Strategy(if_exists, update_if_exists) ==
    IF update_if_exists /\ if_exists = "fail" THEN "update" ELSE if_exists

\* the title of the page (create_document.py lines 94-103)
FinalTitle(o) ==
    LET date_str == IF o.date # "" THEN o.date
                    ELSE IF o.yesterday THEN Yesterday ELSE Today
    IN  IF o.with_date \/ o.date # "" \/ o.yesterday
        THEN IF o.date_prefix THEN date_str \o " - " \o o.page_title
             ELSE o.page_title \o " - " \o date_str
        ELSE o.page_title

\* a candidate that does not count
Candidate_Unnumbered(title, i) == title \o " (2)"

\* the candidate title of the suffix strategy (create_document.py line 217)
Candidate(title, i) == title \o " (" \o IntToStr(i) \o ")"

\* a duplicate check that never sees a page
Existing_Never(found) == FALSE

\* "if existing:" and "if found:", the truth value of what
\* find_page_by_title returned (create_document.py lines 174 and 222)
Existing(found) == found.found /\ found.page # EmptyDict

\* the summary printed by --dry-run (create_document.py lines 151-161)
CreatePreview(c) ==
    [action |-> "None", title |-> c.title, space |-> c.space_key,
     parent_id |-> PyStr(c.parent), labels |-> c.labels, strategy |-> c.strategy,
     edited |-> c.edit]

\* create_document up to the start of pandoc (create_document.py lines 76-137).
\* o.edited is what the editor returns: None, or the text saved.
CreateDocument(o) ==
    LET c == [NoCmd EXCEPT !.name = "create", !.dry_run = o.dry_run,
                           !.if_exists = o.if_exists,
                           !.update_if_exists = o.update_if_exists,
                           !.strategy = Strategy(o.if_exists, o.update_if_exists),
                           !.labels = o.labels, !.edit = o.edit,
                           !.title = FinalTitle(o), !.space_key = o.space_key,
                           !.parent = ParentArg(o.parent_page_id),
                           !.md = IF o.edit THEN TempMd ELSE o.input_md_file,
                           !.html = o.html_file, !.pandoc_args = o.pandoc_args]
    IN  /\ cmd.pc = "idle"
        /\ IF o.space_key = ""
           THEN cmd' = CmdExit(c, 1, "SystemExit") /\ UNCHANGED conv
           ELSE IF (o.input_md_file = "" /\ ~o.edit) \/ (o.template # "" /\ ~o.edit)
           THEN cmd' = CmdExit(c, 2, "UsageError") /\ UNCHANGED conv
           ELSE IF o.edit /\ (o.edited = JNone \/ Strip(o.edited.s) = "")
           THEN cmd' = CmdExit(c, 2, "SystemExit") /\ UNCHANGED conv
           ELSE /\ cmd' = [c EXCEPT !.pc = "convert", !.tmp = o.edit]
                /\ ConvertCall(c.md, c.html, c.pandoc_args)
        /\ UNCHANGED <<client, frame, uframe, rfs, fnd, lst, env>>

\* convert_md_to_html ended: its exception ends the run; else --dry-run
\* prints the summary and returns, else the duplicate check starts
\* (create_document.py lines 137-172).
CreateAfterConvert ==
    /\ cmd.name = "create" /\ cmd.pc = "convert" /\ conv.pc = "done"
    /\ IF conv.tag = "raise"
       THEN cmd' = CmdExit(cmd, 1, conv.cls) /\ UNCHANGED <<frame, fnd>>
       ELSE IF cmd.dry_run
       THEN /\ cmd' = [CmdExit(cmd, 0, "") EXCEPT !.preview = CreatePreview(cmd)]
            /\ UNCHANGED <<frame, fnd>>
       ELSE /\ cmd' = Called([cmd EXCEPT !.pc = "find"], "find", "GET", cmd.title)
            /\ FindCall(cmd.title, cmd.space_key, cmd.parent)
    /\ UNCHANGED <<client, uframe, rfs, lst, conv, env>>

\* The duplicate check ended (create_document.py lines 168-256): with a page
\* found the strategy decides, with none the page is created.
CreateAfterFind ==
    /\ cmd.name = "create" /\ cmd.pc = "find" /\ fnd.pc = "done"
    /\ LET link == PageLink(fnd.out.page)
           eid  == GetText(fnd.out.page, "id")
           c    == [cmd EXCEPT !.dup = IF fnd.out.found THEN "found" ELSE "absent"]
       IN  IF fnd.tag = "raise"
           THEN cmd' = CmdExit(cmd, 1, result.cls) /\ UNCHANGED <<frame, uframe, fnd>>
           ELSE IF Existing(fnd.out)
           THEN IF cmd.strategy = "fail"
                THEN cmd' = CmdExit(c, 2, "SystemExit") /\ UNCHANGED <<frame, uframe, fnd>>
                ELSE IF cmd.strategy = "open"
                THEN /\ cmd' = [CmdExit(c, 0, "SystemExit") EXCEPT !.opened = link.some]
                     /\ UNCHANGED <<frame, uframe, fnd>>
                ELSE IF cmd.strategy = "update"
                THEN /\ cmd' = Called([c EXCEPT !.pc = "update", !.page_id = eid],
                                      "update", "PUT", cmd.title)
                     /\ UpdatePageCall(eid, TRUE)
                     /\ UNCHANGED fnd
                ELSE IF cmd.strategy = "suffix"
                THEN /\ cmd' = Called([c EXCEPT !.pc = "probe", !.i = 2],
                                      "find", "GET", Candidate(cmd.title, 2))
                     /\ FindCall(Candidate(cmd.title, 2), cmd.space_key, cmd.parent)
                     /\ UNCHANGED uframe
                ELSE cmd' = CmdExit(c, 2, "SystemExit") /\ UNCHANGED <<frame, uframe, fnd>>
           ELSE /\ cmd' = Called([c EXCEPT !.pc = "create"], "create", "POST", cmd.title)
                /\ CreatePageCall
                /\ UNCHANGED <<uframe, fnd>>
    /\ UNCHANGED <<client, rfs, lst, conv, env>>

\* client.add_labels is not a method of ConfluenceClient: the call raises
\* AttributeError, which the except clause turns into a warning
\* (create_document.py lines 201-205, 232-236, 259-263).
Finished(c) == [CmdExit(c, 0, "") EXCEPT !.label_warning = c.labels # <<>>]

\* update_page ended (create_document.py lines 193-211)
CreateAfterUpdate ==
    /\ cmd.name = "create" /\ cmd.pc = "update" /\ upc = "done"
    /\ cmd' = IF uresult.tag = "raise" THEN CmdExit(cmd, 1, uresult.cls) ELSE Finished(cmd)
    /\ UNCHANGED <<client, frame, uframe, rfs, fnd, lst, conv, env>>

\* The probe of a candidate title ended (create_document.py lines 216-244):
\* a taken title moves on to the next candidate, a free one is created.
CreateAfterProbe ==
    /\ cmd.name = "create" /\ cmd.pc = "probe" /\ fnd.pc = "done"
    /\ IF fnd.tag = "raise"
       THEN cmd' = CmdExit(cmd, 1, result.cls) /\ UNCHANGED <<frame, fnd>>
       ELSE IF Existing(fnd.out)
       THEN IF cmd.i + 1 > SuffixMax
            THEN cmd' = CmdExit(cmd, 2, "SystemExit") /\ UNCHANGED <<frame, fnd>>
            ELSE /\ cmd' = Called([cmd EXCEPT !.i = cmd.i + 1],
                                  "find", "GET", Candidate(cmd.title, cmd.i + 1))
                 /\ FindCall(Candidate(cmd.title, cmd.i + 1), cmd.space_key, cmd.parent)
       ELSE /\ cmd' = Called([cmd EXCEPT !.pc = "create"],
                             "create", "POST", Candidate(cmd.title, cmd.i))
            /\ CreatePageCall
            /\ UNCHANGED fnd
    /\ UNCHANGED <<client, uframe, rfs, lst, conv, env>>

\* create_page ended (create_document.py lines 224-242 and 250-275)
CreateAfterPost ==
    /\ cmd.name = "create" /\ cmd.pc = "create" /\ rpc \in {"returned", "raised"}
    /\ cmd' = IF rpc = "raised" THEN CmdExit(cmd, 1, result.cls) ELSE Finished(cmd)
    /\ UNCHANGED <<client, frame, uframe, rfs, fnd, lst, conv, env>>

\* the summary printed by --dry-run (update_document.py lines 61-68)
UpdatePreview(c) ==
    [action |-> "update", page_id |-> c.page_id, from_md |-> c.md, to_html |-> c.html]

\* update_document from the page id on (update_document.py lines 57-75)
UpdateProceed(c) ==
    IF c.dry_run
    THEN cmd' = [CmdExit(c, 0, "") EXCEPT !.preview = UpdatePreview(c)] /\ UNCHANGED conv
    ELSE cmd' = [c EXCEPT !.pc = "convert"] /\ ConvertCall(c.md, c.html, c.pandoc_args)

\* update_document is run (update_document.py lines 34-75): without --page-id
\* the page is looked up by title first.
UpdateDocument(o) ==
    LET c == [NoCmd EXCEPT !.name = "update", !.dry_run = o.dry_run,
                           !.title = o.title, !.space_key = o.space_key,
                           !.parent = ParentArg(o.parent_page_id),
                           !.page_id = o.page_id, !.md = o.input_md_file,
                           !.html = o.html_file, !.pandoc_args = o.pandoc_args]
    IN  /\ cmd.pc = "idle"
        /\ IF o.page_id = ""
           THEN IF o.title = "" \/ o.space_key = ""
                THEN cmd' = CmdExit(c, 1, "SystemExit") /\ UNCHANGED <<conv, frame, fnd>>
                ELSE /\ cmd' = Called([c EXCEPT !.pc = "find"], "find", "GET", o.title)
                     /\ FindCall(o.title, o.space_key, c.parent)
                     /\ UNCHANGED conv
           ELSE UpdateProceed(c) /\ UNCHANGED <<frame, fnd>>
        /\ UNCHANGED <<client, uframe, rfs, lst, env>>

\* The lookup by title ended (update_document.py lines 52-75).
UpdateAfterFind ==
    /\ cmd.name = "update" /\ cmd.pc = "find" /\ fnd.pc = "done"
    /\ IF fnd.tag = "raise"
       THEN cmd' = CmdExit(cmd, 1, result.cls) /\ UNCHANGED conv
       ELSE IF ~Existing(fnd.out)
       THEN cmd' = CmdExit(cmd, 2, "UsageError") /\ UNCHANGED conv
       ELSE UpdateProceed([cmd EXCEPT !.page_id = fnd.out.page.id])
    /\ UNCHANGED <<client, frame, uframe, rfs, fnd, lst, env>>

\* convert_md_to_html ended: its exception ends the run, else update_page
\* starts (update_document.py lines 75-84).
UpdateAfterConvert ==
    /\ cmd.name = "update" /\ cmd.pc = "convert" /\ conv.pc = "done"
    /\ IF conv.tag = "raise"
       THEN cmd' = CmdExit(cmd, 1, conv.cls) /\ UNCHANGED <<frame, uframe>>
       ELSE /\ cmd' = Called([cmd EXCEPT !.pc = "update"], "update", "PUT", cmd.title)
            /\ UpdatePageCall(cmd.page_id, TRUE)
    /\ UNCHANGED <<client, rfs, fnd, lst, conv, env>>

\* update_page ended (update_document.py lines 79-89)
UpdateAfterUpdate ==
    /\ cmd.name = "update" /\ cmd.pc = "update" /\ upc = "done"
    /\ cmd' = IF uresult.tag = "raise" THEN CmdExit(cmd, 1, uresult.cls)
              ELSE CmdExit(cmd, 0, "")
    /\ UNCHANGED <<client, frame, uframe, rfs, fnd, lst, conv, env>>

----------------------------------------------------------------------------
(* The specification *)

\* base_url arguments of the constructor
BaseUrls == {"https://x/"}
\* timeout arguments of the constructor, seconds (the default of client.py line 12)
Timeouts == {15}
\* backoff arguments of the constructor, milliseconds
Backoffs == {0, 500}
\* page ids handed to update_page
PageIds == {"123", "14093"}
\* paths and expected sets of direct _request calls
Paths == {"/rest/api/content", "nope"}
ExpectedArgs == {{}, {200}}

\* ConfluenceClient.__init__ (client.py lines 12-24)
InitClient ==
    /\ retries \in 0..MaxRetries
    /\ backoff \in Backoffs
    /\ base_url \in {RStripChar(b, "/") : b \in BaseUrls}
    /\ timeout \in Timeouts
    /\ rpc = "idle"
    /\ req = [method |-> "", url |-> "", expected |-> {}]
    /\ attempt = 0
    /\ calls = 0
    /\ seen = NoSeen
    /\ slept = -1
    /\ result = NoResult
    /\ upc = "idle"
    /\ upd = NoUpdate
    /\ reqlog = <<>>
    /\ uresult = NoResult
    /\ srv = 0 /\ lnk = NoLinkCall /\ br = NoBrowse

NotRaised == [raised |-> FALSE, cls |-> "None", msg |-> ""]
NoRfs == [called |-> FALSE, status_code |-> 0, message |-> "",
          payload |-> EmptyDict, out |-> NotRaised]

Init ==
    /\ InitClient
    /\ rfs = NoRfs
    /\ fnd = NoFind /\ lst = NoList /\ conv = NoConv /\ cmd = NoCmd

\* A caller invokes _request directly (as the tests do).
Request(method, path, expected) ==
    /\ ~Busy
    /\ upc' = "idle" /\ upd' = NoUpdate /\ reqlog' = <<>> /\ uresult' = NoResult
    /\ BeginRequest(method, path, expected)
    /\ UNCHANGED <<client, rfs, others>>

\* _request called directly
Next ==
    \/ \E path \in Paths, e \in ExpectedArgs : Request("GET", path, e)
    \/ Attempt

Spec == Init /\ [][Next]_vars

\* update_page and the _request calls it makes
NextUpdate ==
    \/ \E id \in PageIds, r \in BOOLEAN : UpdatePage(id, r)
    \/ Attempt
    \/ AfterGet1
    \/ AfterPut1
    \/ AfterGet2
    \/ AfterPut2

SpecUpdate == Init /\ [][NextUpdate]_vars

\* raise_for_status applied to one status code, message and payload.
StatusCodes == 100..599
Messages == {"", "GET https://x/nope"}
Payloads == ErrorBodies \cup ConflictBodies \cup {EmptyDict, [reason |-> "Gone"]}

InitStatus ==
    /\ InitClient
    /\ \E s \in StatusCodes, m \in Messages, p \in Payloads :
          rfs = [called |-> FALSE, status_code |-> s, message |-> m,
                 payload |-> p, out |-> NotRaised]
    /\ fnd = NoFind /\ lst = NoList /\ conv = NoConv /\ cmd = NoCmd

RaiseForStatus ==
    /\ ~rfs.called
    /\ rfs' = [rfs EXCEPT !.called = TRUE,
                          !.out = raise_for_status(rfs.status_code, rfs.message, rfs.payload)]
    /\ UNCHANGED <<client, frame, uframe, others>>

SpecStatus == InitStatus /\ [][RaiseForStatus]_vars

\* find_page_by_title: titles, space keys and parent ids of its callers
Titles == {"T"}
SpaceKeys == {"DOC"}
ParentIds == {JNone, JStr("10"), JStr("20"), JStr("30")}

NextFind ==
    \/ \E t \in Titles, k \in SpaceKeys, p \in ParentIds : FindPageByTitle(t, k, p)
    \/ Attempt
    \/ AfterFind

SpecFind == Init /\ [][NextFind]_vars

\* list_all_children against a server that holds n children of the page
InitList ==
    /\ InitClient
    /\ rfs = NoRfs
    /\ fnd = NoFind /\ conv = NoConv /\ cmd = NoCmd
    /\ \E n \in 0..MaxChildren : lst = [NoList EXCEPT !.n = n]

NextList ==
    \/ \E id \in PageIds : ListAllChildren(id)
    \/ Attempt
    \/ AfterChunk

SpecList == InitList /\ [][NextList]_vars

\* convert_md_to_html: the paths and pandoc arguments of its callers
MdPaths == {"a.md"}
HtmlPaths == {"out/a.html", "b.html"}
PandocArgs == {"", "--toc", "-s --metadata title=\"My Doc\"", "--metadata title=\"My"}

\* the environment: pandoc on PATH or not, and the output files that exist
ConvEnvs ==
    {[NoConv EXCEPT !.on_path = p, !.files = f] : p \in BOOLEAN, f \in SUBSET HtmlPaths}

InitConvert ==
    /\ InitClient /\ retries = 0 /\ backoff = 0
    /\ rfs = NoRfs
    /\ fnd = NoFind /\ lst = NoList /\ cmd = NoCmd
    /\ conv \in ConvEnvs

NextConvert ==
    \/ \E i \in MdPaths, h \in HtmlPaths, a \in PandocArgs : ConvertMdToHtml(i, h, a)
    \/ PandocExits

SpecConvert == InitConvert /\ [][NextConvert]_vars

\* The commands build their client with --retries and the default backoff
\* (create_document.py lines 142-148, update_document.py lines 39-45).
CmdRetries == {0, 1}
DefaultBackoff == 500

\* the environment of a command: pandoc on PATH or not, the HTML file there or not
InitCommand ==
    /\ InitClient /\ retries \in CmdRetries /\ backoff = DefaultBackoff
    /\ rfs = NoRfs
    /\ fnd = NoFind /\ lst = NoList /\ cmd = NoCmd
    /\ conv \in {e \in ConvEnvs : e.files \subseteq {"out/a.html"}}

\* option values of the create command
CreateOptions ==
    {o \in [space_key : {"", "DOC"}, parent_page_id : {0, 10}, page_title : Titles,
            with_date : {FALSE}, date : {"", "2025-08-23"}, yesterday : {FALSE},
            date_prefix : {TRUE},
            input_md_file : {"", "a.md"}, edit : BOOLEAN, template : {"", "t.md"},
            edited : {JNone, JStr(" "), JStr("# Doc")},
            html_file : {"out/a.html"}, pandoc_args : {""},
            if_exists : {"fail", "open", "update", "suffix"},
            update_if_exists : BOOLEAN, labels : {<<>>, <<"x">>}, dry_run : BOOLEAN] :
        o.edit \/ o.edited = JNone}

NextCreate ==
    \/ cmd.pc = "idle" /\ \E o \in CreateOptions : CreateDocument(o)
    \/ PandocExits
    \/ CreateAfterConvert
    \/ Attempt
    \/ AfterFind
    \/ CreateAfterFind
    \/ AfterGet1
    \/ AfterPut1
    \/ AfterGet2
    \/ AfterPut2
    \/ CreateAfterUpdate
    \/ CreateAfterProbe
    \/ CreateAfterPost

SpecCreate == InitCommand /\ [][NextCreate]_vars

\* create_page called directly, once or again after it ended
NextCreatePage ==
    \/ CreatePage
    \/ Attempt

SpecCreatePage == Init /\ [][NextCreatePage]_vars

\* page_link applied to page representations: each of _links.webui,
\* _links.base, _links.tinyui, id and space there or not, webui and tinyui with
\* and without the leading slash, on a Server and on a Cloud base URL.
LinkBaseUrls == {"https://x/", "https://x/wiki"}
LinkFields ==
    [webui : {"/display/DOC/T", "display/DOC/T"}, base : {"https://wiki.example"},
     tinyui : {"/x/AbC", "x/AbC"}, id : {"123"}, space : {[key |-> "DOC"], [name |-> "Docs"]}]
\* the dict with the keys of f that are in keep
Project(f, keep) == [k \in keep |-> f[k]]
PageJsons ==
    {EmptyDict}
    \cup {Project(f, top) : f \in LinkFields, top \in SUBSET {"id", "space"}}
    \cup {[k \in top \cup {"_links"} |->
             IF k = "_links" THEN Project(f, in) ELSE f[k]] :
            f \in LinkFields, top \in SUBSET {"id", "space"},
            in \in SUBSET {"webui", "base", "tinyui"}}

InitLink ==
    /\ retries \in 0..MaxRetries
    /\ backoff \in Backoffs
    /\ base_url \in {RStripChar(b, "/") : b \in LinkBaseUrls}
    /\ timeout \in Timeouts
    /\ rpc = "idle"
    /\ req = [method |-> "", url |-> "", expected |-> {}]
    /\ attempt = 0 /\ calls = 0 /\ seen = NoSeen /\ slept = -1 /\ result = NoResult
    /\ upc = "idle" /\ upd = NoUpdate /\ reqlog = <<>> /\ uresult = NoResult
    /\ srv = 0 /\ lnk = NoLinkCall /\ br = NoBrowse
    /\ rfs = NoRfs
    /\ fnd = NoFind /\ lst = NoList /\ conv = NoConv /\ cmd = NoCmd

NextLink == \E page_json \in PageJsons : PageLinkCall(page_json)

SpecLink == InitLink /\ [][NextLink]_vars

\* the browse commands: a listing command with its --limit and --start, or
\* the interactive browser and the keys pressed in it
Limits == {-1, 0, 1, 25, 100, 101}
Starts == {-1, 0, 30}
StartSpaces == {"", "DOC"}

NextBrowse ==
    \/ \E op \in {"list", "children", "search"}, limit \in Limits, start \in Starts :
          ListCommand(op, limit, start)
    \/ \E space \in StartSpaces : Interactive(space)
    \/ Quit
    \/ Up
    \/ Down
    \/ Enter
    \/ View
    \/ Right
    \/ Left
    \/ Escape
    \/ Search
    \/ SwitchSpace
    \/ GoTo
    \/ NextPage
    \/ PrevPage
    \/ Shrink
    \/ Grow
    \/ Refresh

\* the client is built with the constructor's defaults (browse.py lines 51, 82,
\* 155, 281); its retries do not show in the browser's state
InitBrowse == Init /\ retries = MaxRetries /\ backoff = DefaultBackoff

SpecBrowse == InitBrowse /\ [][NextBrowse]_vars

\* option values of the update command
UpdateOptions ==
    [page_id : {"", "123"}, space_key : {"", "DOC"}, title : {"", "T"},
     parent_page_id : {0, 10}, input_md_file : {"a.md"}, html_file : {"out/a.html"},
     pandoc_args : {"", "--toc"}, dry_run : BOOLEAN]

NextUpdateDoc ==
    \/ cmd.pc = "idle" /\ \E o \in UpdateOptions : UpdateDocument(o)
    \/ Attempt
    \/ AfterFind
    \/ UpdateAfterFind
    \/ PandocExits
    \/ UpdateAfterConvert
    \/ AfterGet1
    \/ AfterPut1
    \/ AfterGet2
    \/ AfterPut2
    \/ UpdateAfterUpdate

SpecUpdateDoc == InitCommand /\ [][NextUpdateDoc]_vars

----------------------------------------------------------------------------
(* Properties of _request called directly (specification Spec) *)

\* The error taxonomy: the kind each failure status is documented to map to.
ConfluenceErrors ==
    {"AuthError", "NotFound", "Conflict", "RateLimited", "ServerError", "ValidationError"}

TaxonomyKind(s) ==
    CASE s \in {401, 403} -> "AuthError"
      [] s = 404 -> "NotFound"
      [] s = 409 -> "Conflict"
      [] s = 429 -> "RateLimited"
      [] s \in 500..599 -> "ServerError"
      [] OTHER -> "ValidationError"

OnlyTransientSoFar == calls >= 1 /\ seen.transient = calls
OnlyNetworkSoFar == calls >= 1 /\ seen.net = calls

\* C1: after k transient statuses (1 <= k <= retries) the call is still
\* retrying, and when a status of the success set follows them it returns that
\* response's JSON body after exactly k + 1 HTTP calls.
C1_RetryThenSuccess ==
    /\ (OnlyTransientSoFar /\ calls <= retries) => rpc = "loop"
    /\ (/\ seen.success = 1 /\ seen.net = 0 /\ seen.other = 0
        /\ seen.transient >= 1 /\ seen.transient <= retries)
       => /\ rpc = "returned"
          /\ calls = seen.transient + 1
          /\ result.tag = "return"
          /\ result.cause.json_ok => result.value = result.cause.json

\* C2: a first response whose status is neither in the success set nor
\* transient ends the call at once: one HTTP call, one exception, of the kind
\* the taxonomy gives for the status.
C2_OtherStatusRaisesOnce ==
    (calls = 1 /\ seen.other = 1)
    => /\ rpc = "raised"
       /\ result.tag = "raise"
       /\ result.cls = TaxonomyKind(seen.last)

\* C7: when every attempt fails at network level the call retries while
\* attempt <= retries, and then raises the last network exception itself after
\* exactly retries + 1 attempts.
C7_NetworkExhaustion ==
    OnlyNetworkSoFar
    => IF calls <= retries
       THEN rpc = "loop"
       ELSE /\ calls = retries + 1
            /\ rpc = "raised"
            /\ result.tag = "raise"
            /\ result.cls = "RequestException"
            /\ result.cls \notin ConfluenceErrors
            /\ result.cause.net
            /\ result.msg = result.cause.msg

C7_Witness ==
    /\ OnlyNetworkSoFar /\ retries >= 1 /\ calls = retries + 1 /\ rpc = "raised"
    /\ result.msg = "Read timed out."

\* C8: when every response is transient the call makes exactly retries + 1
\* HTTP calls and then raises RateLimited (429) or ServerError (500, 502, 503,
\* 504) for the last status, with the method, the URL and the payload's
\* message-or-title and reason in the detail text.
C8_TransientExhaustion ==
    OnlyTransientSoFar
    => IF calls <= retries
       THEN rpc = "loop"
       ELSE /\ calls = retries + 1
            /\ rpc = "raised"
            /\ result.cls = (IF seen.last = 429 THEN "RateLimited" ELSE "ServerError")
            /\ Contains(result.msg, req.method \o " " \o req.url)
            /\ Contains(result.msg, GetText(Payload(result.cause), "message"))
            /\ GetText(Payload(result.cause), "message") = ""
                  => Contains(result.msg, GetText(Payload(result.cause), "title"))
            /\ Contains(result.msg, GetText(Payload(result.cause), "reason"))

\* C9: one _request call makes at most retries + 1 HTTP calls.
C9_BoundedCalls == calls <= retries + 1

\* the latest outcome of the running call, when there is one
LastIsNetwork == calls >= 1 /\ seen.last = 0
LastIsTransient == calls >= 1 /\ seen.last \in TransientStatuses

\* C11: a response with status 429 or 500..599 is retried while attempts
\* remain (attempt <= retries), and a response of any other failure status
\* (the other 4xx) raises at once.
C11_TransientClassRetried ==
    /\ (/\ calls >= 1 /\ seen.last \in ({429} \cup (500..599))
        /\ seen.last \notin req.expected /\ calls <= retries)
       => rpc = "loop"
    /\ (seen.last \in ((400..499) \ {429}) /\ seen.last \notin req.expected)
       => rpc = "raised" /\ result.cause.status = seen.last

\* C12 as stated: each kind of failure has its own budget of retries; a
\* network failure is retried while the network failures so far are at most
\* retries, and a transient status while the transient statuses so far are at
\* most retries, whatever the other kind has consumed. Calls that met a
\* Retry-After header are left out (see C1).
C12_IndependentBudgets ==
    /\ (LastIsNetwork /\ seen.net <= retries) => rpc = "loop"
    /\ (LastIsTransient /\ ~seen.retry_after.present /\ seen.transient <= retries)
       => rpc = "loop"

\* C12, amended: network failures and transient statuses consume the one
\* attempt counter of the call. A network failure is retried exactly when the
\* attempts so far, of either kind, are at most retries; and a transient
\* status is never retried once the attempts so far exceed retries.
C12_SharedBudget ==
    /\ attempt = calls
    /\ LastIsNetwork => (rpc = "loop" <=> calls <= retries)
    /\ LastIsNetwork /\ calls > retries => rpc = "raised"
    /\ LastIsTransient /\ calls > retries => rpc = "raised"

C12_Witness ==
    /\ retries = 1 /\ calls = 2 /\ seen.net = 1 /\ seen.transient = 1
    /\ LastIsTransient /\ rpc = "raised" /\ result.cls = "ServerError"

AllDigits(text) == Len(text) > 0 /\ \A i \in 1..Len(text) : IsDigit(SubSeq(text, i, i))

\* C19: the sleep before a retry. After a network failure at attempt a it is
\* backoff * 2^(a-1); after a transient status it is the Retry-After value, a
\* number of seconds (here in milliseconds), when the header is there, 0
\* included, and backoff * 2^(a-1) when it is not. a is the count of all the
\* attempts of the call, and the delay depends on nothing else.
C19_RetryDelay ==
    /\ attempt = calls
    /\ (rpc = "loop" /\ LastIsNetwork) => slept = backoff * (2 ^ (calls - 1))
    /\ (rpc = "loop" /\ LastIsTransient)
       => IF seen.retry_after.present
          THEN /\ AllDigits(seen.retry_after.value)
               /\ slept = 1000 * ToInt(seen.retry_after.value)
          ELSE slept = backoff * (2 ^ (calls - 1))

\* a Retry-After of 0 seconds: no sleep, although backoff is not 0
C19_Witness ==
    /\ rpc = "loop" /\ calls = 1 /\ seen.last = 503 /\ backoff = 500
    /\ seen.retry_after = Header("0") /\ slept = 0

----------------------------------------------------------------------------
(* Properties of update_page (specification SpecUpdate) *)

Puts == {i \in DOMAIN reqlog : reqlog[i].method = "PUT"}
Gets == {i \in DOMAIN reqlog : reqlog[i].method = "GET"}

\* the first PUT of the running update_page failed with a Conflict (HTTP 409)
FirstPutConflict ==
    Len(reqlog) >= 2 /\ reqlog[2].tag = "raise" /\ reqlog[2].cls = "Conflict"

\* C3: when the first PUT is answered 409, update_page (with its default
\* _retry) re-fetches the page and sends a second PUT, two PUTs in all, and
\* returns what the second PUT returns.
C3_ConflictRetriedOnce ==
    (upc = "done" /\ upd.retry /\ FirstPutConflict)
    => /\ Len(reqlog) >= 3
       /\ reqlog[3].method = "GET"
       /\ reqlog[3].tag = "return"
          => /\ Len(reqlog) = 4
             /\ reqlog[4].method = "PUT"
             /\ Cardinality(Puts) = 2
             /\ reqlog[4].tag = "return"
                => uresult.tag = "return" /\ uresult = result /\ result.cause.status = 200

\* C4: a re-fetch and a second PUT happen only when the first PUT failed with
\* a Conflict (HTTP 409); any other failure of the first PUT ends update_page.
C4_RetryOnlyOnConflict ==
    Len(reqlog) >= 3 => FirstPutConflict

\* C5: one update_page call invokes _request with PUT at most twice and GETs
\* the page at most twice, and whatever the second PUT raises is what
\* update_page raises.
C5_AtMostTwoPuts ==
    /\ Cardinality(Puts) <= 2
    /\ Cardinality(Gets) <= 2
    /\ (upc = "done" /\ Cardinality(Puts) = 2)
       => /\ uresult = result
          /\ reqlog[Len(reqlog)].method = "PUT"
          /\ reqlog[Len(reqlog)].tag = uresult.tag
          /\ reqlog[Len(reqlog)].cls = uresult.cls

C5_Witness ==
    /\ upc = "done" /\ Cardinality(Puts) = 2
    /\ uresult.tag = "raise" /\ uresult.cls = "Conflict" /\ uresult.cause.status = 409

\* C10: every PUT of update_page directly follows a GET of the same page that
\* returned, and carries that GET's version number plus one.
C10_VersionFromPrecedingGet ==
    \A i \in Puts :
        /\ i > 1
        /\ reqlog[i - 1].method = "GET"
        /\ reqlog[i - 1].url = reqlog[i].url
        /\ reqlog[i - 1].tag = "return"
        /\ reqlog[i - 1].got # -1 => reqlog[i].version = reqlog[i - 1].got + 1

C10_Witness ==
    /\ Len(reqlog) = 4
    /\ reqlog[1].got = 1 /\ reqlog[2].version = 2
    /\ reqlog[3].got = 2 /\ reqlog[4].version = 3

\* C20: no step changes retries, backoff, timeout or base_url; every _request
\* call, also the GETs and PUTs inside one update_page, starts with its
\* attempt counter at 0; a network failure at one of the first retries
\* attempts of a call is retried, and a call that gives up on a network failure
\* has made at least retries + 1 attempts of its own, whatever the calls
\* before it used.
C20_FreshBudget ==
    [][/\ retries' = retries /\ backoff' = backoff
       /\ timeout' = timeout /\ base_url' = base_url
       /\ (rpc # "loop" /\ rpc' = "loop") => (attempt' = 0 /\ calls' = 0)
       /\ (calls' = calls + 1 /\ rpc' = "raised" /\ result'.cause.net)
          => (attempt' = calls' /\ calls' >= retries + 1)
       /\ (calls' = calls + 1 /\ result'.cause.net /\ calls' <= retries)
          => rpc' = "loop"]_vars

\* the second PUT of an update_page gives up after retries + 1 attempts
C20_Witness ==
    /\ Len(reqlog) = 4 /\ upc = "put2" /\ rpc = "raised" /\ result.cause.net
    /\ retries >= 1 /\ calls = retries + 1

----------------------------------------------------------------------------
(* Properties of the create command (specification SpecCreate) *)

PostsAndPuts == {i \in DOMAIN cmd.api : cmd.api[i].method \in {"POST", "PUT"}}

\* C17: when the duplicate check finds a page and the strategy is 'fail'
\* (--if-exists fail, the default, without --update-if-exists), the create
\* command exits with status 2 having issued no POST and no PUT; and a POST
\* for the computed title is issued only after a duplicate check that found
\* no page.
C17_FailStrategy ==
    /\ (cmd.dup = "found" /\ cmd.if_exists = "fail" /\ ~cmd.update_if_exists)
       => /\ cmd.pc = "exit" /\ cmd.exit = 2
          /\ PostsAndPuts = {}
          /\ upc = "idle" /\ reqlog = <<>>
          /\ req.method = "GET"
    /\ \A i \in DOMAIN cmd.api :
          (cmd.api[i].method = "POST" /\ cmd.api[i].title = cmd.title)
          => cmd.dup = "absent"

C17_Witness ==
    /\ cmd.name = "create" /\ cmd.pc = "exit" /\ cmd.exit = 2 /\ cmd.dup = "found"
    /\ cmd.if_exists = "fail" /\ ~cmd.update_if_exists
    /\ Len(cmd.api) = 1 /\ cmd.api[1].method = "GET"

\* C18: with --update-if-exists, a page found by the duplicate check is
\* updated (update_page is called for it), whatever --if-exists is.
C18_UpdateIfExistsOverrides ==
    (cmd.update_if_exists /\ cmd.dup = "found")
    => /\ cmd.strategy = "update"
       /\ upc # "idle"
       /\ \E i \in DOMAIN cmd.api : cmd.api[i].op = "update"

----------------------------------------------------------------------------
(* Properties of the update command (specification SpecUpdateDoc) *)

\* C16: with --dry-run a command makes no API call: no client method is
\* called and session.request is never invoked; and once the page id is
\* known, the run prints the preview and ends with status 0.
C16_DryRunNoApiCalls ==
    cmd.dry_run
    => /\ cmd.api = <<>>
       /\ rpc = "idle" /\ calls = 0
       /\ (cmd.pc = "exit" /\ cmd.page_id # "")
          => (cmd.exit = 0 /\ cmd.preview # EmptyDict)

----------------------------------------------------------------------------
(* Properties of find_page_by_title (specification SpecFind) *)

\* the results of the response the search returned, and those of them that
\* have an ancestor whose id, as a text, is the parent id as a text
Returned_results == Results(result.value)
UnderParent ==
    {i \in 1..Len(Returned_results) :
        \E k \in 1..Len(Ancestors(Returned_results[i])) :
            PyStr(AncestorId(Ancestors(Returned_results[i])[k])) = PyStr(fnd.parent_id)}

\* C13: with a parent id, find_page_by_title returns None when no result has
\* an ancestor with that id (even if there are results), and otherwise the
\* first result, in the order of the response, that has one; without a parent
\* id it returns the first result, or None when there are no results.
C13_FindByTitle ==
    (fnd.pc = "done" /\ fnd.tag = "return")
    => IF fnd.parent_id = JNone
       THEN IF Len(Returned_results) = 0
            THEN fnd.out = NoPage
            ELSE fnd.out = Page(Returned_results[1])
       ELSE IF UnderParent = {}
            THEN fnd.out = NoPage
            ELSE /\ fnd.out.found
                 /\ \E i \in UnderParent :
                       /\ fnd.out.page = Returned_results[i]
                       /\ \A j \in UnderParent : i <= j

\* same-titled results exist, none under the parent asked for: None
C13_Witness ==
    /\ fnd.pc = "done" /\ fnd.tag = "return" /\ fnd.parent_id = JStr("20")
    /\ Len(Returned_results) = 2 /\ UnderParent = {} /\ fnd.out = NoPage
    /\ Returned_results[1].id = "123"

----------------------------------------------------------------------------
(* Properties of list_all_children (specification SpecList) *)

\* C14: against a fixed list of n children, list_all_children asks for the
\* offsets 0, 100, 200, ... in order, each with limit 100, sends no request
\* after the first chunk of fewer than 100 items (n div 100 + 1 requests at
\* most), and returns the n children, each once, in the server's order.
C14_ListAllChildren ==
    /\ \A i \in 1..Len(lst.sent) :
          lst.sent[i].start = (i - 1) * PageSize /\ lst.sent[i].limit = PageSize
    /\ Len(lst.sent) <= (lst.n \div PageSize) + 1
    /\ (lst.pc = "done" /\ lst.tag = "return")
       => /\ Len(lst.sent) = (lst.n \div PageSize) + 1
          /\ Len(lst.out) = lst.n
          /\ \A i \in 1..lst.n : lst.out[i] = i

\* two full chunks and then an empty one
C14_Witness ==
    /\ lst.pc = "done" /\ lst.tag = "return" /\ lst.n = 2 * PageSize
    /\ Len(lst.sent) = 3 /\ Len(lst.out) = 2 * PageSize
    /\ Results(result.value) = <<>>

----------------------------------------------------------------------------
(* Properties of convert_md_to_html (specification SpecConvert) *)

\* C15: when pandoc is not on PATH, convert_md_to_html raises PandocNotFound
\* with no subprocess started and the output files as it found them; and an
\* "except PandocNotFound" tells this error from the RuntimeError of a pandoc
\* that ran and failed: it catches an exception of the call exactly when
\* pandoc was not on PATH.
C15_PandocNotFound ==
    /\ (conv.pc # "idle" /\ ~conv.on_path)
       => /\ conv.pc = "done" /\ conv.tag = "raise"
          /\ conv.cls = "PandocNotFound"
          /\ conv.spawned = 0 /\ conv.code = -1
          /\ conv.files = conv.before
    /\ (conv.pc = "done" /\ conv.tag = "raise")
       => (IsInstance(conv.cls, "PandocNotFound") <=> ~conv.on_path)
    /\ (conv.pc = "done" /\ conv.code > 0)
       => /\ conv.tag = "raise" /\ conv.cls = "RuntimeError"
          /\ ~IsInstance(conv.cls, "PandocNotFound")

C15_Witness ==
    /\ conv.pc = "done" /\ ~conv.on_path /\ conv.cls = "PandocNotFound"
    /\ conv.html_out = "b.html" /\ conv.html_out \notin conv.files

----------------------------------------------------------------------------
(* Properties of raise_for_status (specification SpecStatus) *)

\* C6: raise_for_status raises for every status 400..599, and the exception
\* is AuthError for 401 and 403, NotFound for 404, Conflict for 409,
\* RateLimited for 429, ServerError for 500..599 and ValidationError for every
\* other status 400..499.
C6_StatusMapping ==
    (rfs.called /\ rfs.status_code \in 400..599)
    => /\ rfs.out.raised
       /\ rfs.out.cls \in ConfluenceErrors
       /\ rfs.out.cls = TaxonomyKind(rfs.status_code)

C6_Witness ==
    rfs.called /\ rfs.status_code = 403 /\ rfs.out.raised /\ rfs.out.cls = "AuthError"


----------------------------------------------------------------------------
(* Properties of page_link (specification SpecLink) *)

\* the id of the page handed to page_link, and a text of its _links
LinkArgId == GetText(lnk.page_json, "id")
LinkArgText(k) ==
    IF "_links" \in DOMAIN lnk.page_json THEN GetText(lnk.page_json._links, k) ELSE ""

\* C22, as stated: page_link returns None when the page representation has no
\* id, whatever _links.webui, _links.base, _links.tinyui and the space key
\* are, and never returns None when it has an id.
C22_NoneIffNoId ==
    lnk.called => (lnk.out = NoLink <=> LinkArgId = "")

\* C22, amended: page_link returns None exactly when the page representation
\* has neither a webui link, nor a tinyui link, nor an id; so it never returns
\* None when an id is present, and a page without id still gets the link its
\* webui or tinyui gives.
C22_NoneIffNothingToLink ==
    lnk.called
    => /\ lnk.out = NoLink
          <=> (LinkArgText("webui") = "" /\ LinkArgText("tinyui") = "" /\ LinkArgId = "")
       /\ LinkArgId # "" => lnk.out.some

\* a page without id whose webui link is returned
C22_Witness ==
    /\ lnk.called /\ LinkArgId = "" /\ LinkArgText("webui") = "/display/DOC/T"
    /\ LinkArgText("base") = "" /\ lnk.out = Link(base_url \o "/display/DOC/T")

----------------------------------------------------------------------------
(* Properties of create_page (specification SpecCreatePage) *)

\* C23: one create_page call makes the server create at most one page, also
\* when _request sends its POST again after a timeout, a 429 or a 5xx.
C23_AtMostOneCreate ==
    req.method = "POST" => srv <= 1

----------------------------------------------------------------------------
(* Properties of the suffix strategy (specification SpecCreate) *)

SuffixTitle(i) == cmd.title \o " (" \o IntToStr(i) \o ")"

\* C24: with strategy 'suffix' and a page found by the duplicate check, every
\* call the command adds is either the probe of the next candidate
\* "<title> (i)", i = 2, 3, .. 20 in this order, made only after the lookup
\* before it found a page, or the one create_page, for the candidate whose
\* probe has just found nothing; nothing is probed or created after it. The
\* command leaves the loop without create_page only when a probe raised, or
\* with status 2 when the probe of candidate 20 found a page.
C24_SuffixProbes ==
    [][(cmd'.name = "create" /\ cmd'.strategy = "suffix" /\ cmd'.dup = "found")
       => /\ cmd'.api # cmd.api
             => LET n == Len(cmd.api)
                    e == cmd'.api[n + 1]
                IN  /\ cmd'.api = Append(cmd.api, e)
                    /\ \A j \in 1..n : cmd.api[j].op = "find"
                    /\ fnd.pc = "done" /\ fnd.tag = "return"
                    /\ IF e.op = "find"
                       THEN /\ e.title = SuffixTitle(n + 1) /\ n + 1 <= 20
                            /\ fnd.out.found
                       ELSE /\ e.op = "create" /\ e.method = "POST" /\ n >= 2
                            /\ e.title = SuffixTitle(n) /\ cmd.api[n].title = e.title
                            /\ ~fnd.out.found
          /\ (cmd.pc = "probe" /\ cmd'.pc = "exit")
             => IF fnd.tag = "raise" THEN cmd'.exit = 1
                ELSE /\ fnd.out.found /\ Len(cmd.api) = 20 /\ cmd'.exit = 2
                     /\ \A j \in DOMAIN cmd.api : cmd.api[j].op = "find"]_vars

\* candidate 2 is taken, candidate 3 is free and is created
C24_Witness ==
    /\ cmd.name = "create" /\ cmd.strategy = "suffix" /\ cmd.pc = "exit" /\ cmd.exit = 0
    /\ Len(cmd.api) = 4 /\ cmd.api[3].title = cmd.title \o " (3)"
    /\ cmd.api[4].op = "create" /\ cmd.api[4].title = cmd.title \o " (3)"

----------------------------------------------------------------------------
(* Properties of the listing requests and of the interactive browser
   (specification SpecBrowse) *)

\* C21: every listing or search request carries a limit in 1..100 and a
\* start >= 0: a listing command sends the --limit it was given, with a value
\* <= 0 replaced by 1 and a value > 100 by 100, and the --start it was given,
\* with a negative value replaced by 0; so do the requests the browser sends
\* after any keys.
C21_ListingBounds ==
    /\ \A i \in DOMAIN br.listed :
          /\ br.listed[i].op \in {"list_pages_in_space", "list_children", "search_cql"}
          /\ 1 <= br.listed[i].limit /\ br.listed[i].limit <= 100
          /\ br.listed[i].start >= 0
    /\ br.pc = "done"
       => /\ Len(br.listed) = 1
          /\ br.listed[1].limit = (IF br.opts.limit <= 0 THEN 1
                                   ELSE IF br.opts.limit > 100 THEN 100 ELSE br.opts.limit)
          /\ br.listed[1].start = (IF br.opts.start < 0 THEN 0 ELSE br.opts.start)

\* a search command with --limit 101 --start -1 asks for 100 results from 0
C21_Witness ==
    /\ br.pc = "done" /\ br.key = "search" /\ br.opts = [limit |-> 101, start |-> -1]
    /\ br.listed = <<[op |-> "search_cql", limit |-> 100, start |-> 0]>>

\* what the browser shows and keeps, without the bookkeeping of the latest key
Shown(b) == [b EXCEPT !.key = "", !.mark = NoMark]

\* C25: q under the overlay closes it, leaves the list state alone and does
\* not exit; q without overlay exits. ESC under the overlay closes it and
\* leaves the list state alone; ESC without overlay does what the left key
\* does in the same state, and the left key what ESC does.
C25_QuitAndEscape ==
    [][br.pc = "running"
       => /\ br'.key = "q"
             => IF br.visible
                THEN /\ ~br'.visible /\ br'.pc = "running"
                     /\ ListState(br') = ListState(br)
                ELSE br'.pc = "exited"
          /\ (br'.key = "escape" /\ br.visible)
             => /\ ~br'.visible /\ br'.pc = "running"
                /\ ListState(br') = ListState(br)
          /\ (br'.key = "escape" /\ ~br.visible)
             => Shown(br') \in {Shown(x) : x \in OnLeft(Pressed("left"))}
          /\ (br'.key = "left" /\ ~br.visible)
             => Shown(br') \in {Shown(x) : x \in OnEscape(Pressed("escape"))}]_vars

NavKeys == {"up", "down", "enter", "right", "left", "/", "s", "g", "n", "p", "[", "]", "r"}

\* C26: a navigation key (up, down, enter, right, left, /, s, g, n, p, [, ],
\* r) pressed while the overlay is visible leaves items, index, start,
\* page_size, the back stack and the current page id as they were and sends
\* no listing request.
C26_OverlayFreezesList ==
    [][(br.pc = "running" /\ br.visible /\ br'.key \in NavKeys)
       => /\ ListState(br') = ListState(br)
          /\ br'.listed = <<>>]_vars

\* r was pressed under the overlay, with a list behind it
C26_Witness ==
    br.pc = "running" /\ br.visible /\ br.key = "r" /\ Len(br.items) = 2 /\ br.index = 1

C28_IndexInRange ==
    (br.pc = "running" /\ br.items # <<>>)
    => (0 <= br.index /\ br.index < Len(br.items))

\* C29: the page size is a multiple of 5 in 5..100 and start is >= 0 in every
\* state; every [ key lowers the page size by 5, but not below 5, every ] key
\* raises it by 5, but not above 100, and both set start and index to 0.
C29_SizeKeysAlways ==
    [][/\ br'.page_size % 5 = 0 /\ 5 <= br'.page_size /\ br'.page_size <= 100
       /\ br'.start >= 0
       /\ (br.pc = "running" /\ br'.key = "[")
          => /\ br'.page_size = (IF br.page_size - 5 < 5 THEN 5 ELSE br.page_size - 5)
             /\ br'.start = 0 /\ br'.index = 0
       /\ (br.pc = "running" /\ br'.key = "]")
          => /\ br'.page_size = (IF br.page_size + 5 > 100 THEN 100 ELSE br.page_size + 5)
             /\ br'.start = 0 /\ br'.index = 0]_vars

\* C29, amended: the page size is a multiple of 5 in 5..100 and start is >= 0
\* in every state. Pressed while the overlay is not visible, [ lowers the
\* page size by 5, but not below 5, ] raises it by 5, but not above 100, and
\* both set start and index to 0; pressed under the overlay, [, ] and p
\* change neither page size, nor start, nor index. p never lowers start
\* below 0.
C29_SizeKeys ==
    [][/\ br'.page_size % 5 = 0 /\ 5 <= br'.page_size /\ br'.page_size <= 100
       /\ br'.start >= 0
       /\ (br.pc = "running" /\ br'.key \in {"[", "]", "p"} /\ br.visible)
          => /\ br'.page_size = br.page_size
             /\ br'.start = br.start /\ br'.index = br.index
       /\ (br.pc = "running" /\ br'.key = "[" /\ ~br.visible)
          => /\ br'.page_size = (IF br.page_size - 5 < 5 THEN 5 ELSE br.page_size - 5)
             /\ br'.start = 0 /\ br'.index = 0
       /\ (br.pc = "running" /\ br'.key = "]" /\ ~br.visible)
          => /\ br'.page_size = (IF br.page_size + 5 > 100 THEN 100 ELSE br.page_size + 5)
             /\ br'.start = 0 /\ br'.index = 0
       /\ (br.pc = "running" /\ br'.key = "p" /\ ~br.visible)
          => /\ br'.start = (IF br.start - br.page_size < 0 THEN 0
                             ELSE br.start - br.page_size)
             /\ br'.page_size = br.page_size]_vars

\* [ was pressed often enough to stop at the smallest size, with a list loaded
C29_Witness ==
    /\ br.pc = "running" /\ br.key = "[" /\ ~br.visible /\ br.page_size = 5
    /\ br.start = 0 /\ br.index = 0 /\ br.listed # <<>>

============================================================================
